---- MODULE Spec2Model ----
(***************************************************************************)
(* A model of wiz_infoticker (src/bot.py): two scraped sources are merged,  *)
(* sorted, compared with the persisted seen-set (state.json) and the new    *)
(* events are sent one by one before the seen-set is committed.             *)
(*                                                                         *)
(* Text is modelled as a sequence of one-character strings, so that the     *)
(* string functions of the program (normalisation, lower-casing, regular    *)
(* expression search, strptime, code point comparison) are computed and     *)
(* not assumed.  Two characters outside ASCII are written as named atoms:   *)
(* "nbsp" is U+00A0, "middot" is U+00B7, "ouml" is U+00F6 and "bullet" is   *)
(* U+2022.                                                                  *)
(***************************************************************************)
EXTENDS Integers, Sequences, FiniteSets, TLC

(***************************************************************************)
(* Characters and strings                                                   *)
(***************************************************************************)

\* The characters of the model in ascending code point order: Python
\* compares str values code point by code point.
CodePoints ==
    << " ", "&", "*", "-", ".", "/", "0", "1", "2", "3", "4", "5", "6",
       "7", "8", "9", ":", "=", "?", "A", "B", "C", "D", "E", "F", "G",
       "H", "I", "J", "K", "L", "M", "N", "O", "P", "Q", "R", "S", "T",
       "U", "V", "W", "X", "Y", "Z", "_", "a", "b", "c", "d", "e", "f",
       "g", "h", "i", "j", "k", "l", "m", "n", "o", "p", "q", "r", "s",
       "t", "u", "v", "w", "x", "y", "z", "|", "nbsp", "middot",
       "ouml", "bullet" >>

Chars == { CodePoints[i] : i \in 1..Len(CodePoints) }

\* the rank of every character
OrdTable == [c \in Chars |-> CHOOSE i \in 1..Len(CodePoints) : CodePoints[i] = c]

Ord(c) == OrdTable[c]

Digits == {"0", "1", "2", "3", "4", "5", "6", "7", "8", "9"}

IsDigit(c) == c \in Digits

DigitVal(c) == Ord(c) - Ord("0")

DigitChar(n) == CodePoints[Ord("0") + n]

\* \w of the re module, on the characters of the model
IsWordChar(c) ==
    c \notin {" ", "&", "*", "-", ".", "/", ":", "=", "?", "|", "nbsp", "middot",
              "bullet"}

\* \s of the re module, which matches U+00A0 too
IsSpace(c) == c \in {" ", "nbsp"}

IsUpper(c) == Ord("A") <= Ord(c) /\ Ord(c) <= Ord("Z")

\* str.lower on one character
LowerChar(c) == IF IsUpper(c) THEN CodePoints[Ord(c) - Ord("A") + Ord("a")] ELSE c

lower(s) == [i \in 1..Len(s) |-> LowerChar(s[i])]

\* a < b decided from position i on, the earlier positions being equal
RECURSIVE StrLessFrom(_, _, _)
StrLessFrom(a, b, i) ==
    IF i > Len(b) THEN FALSE
    ELSE IF i > Len(a) THEN TRUE
    ELSE IF a[i] # b[i] THEN Ord(a[i]) < Ord(b[i])
    ELSE StrLessFrom(a, b, i + 1)

\* str < str
StrLess(a, b) == StrLessFrom(a, b, 1)

RECURSIVE lstrip(_, _)
lstrip(s, chars) ==
    IF s # << >> /\ s[1] \in chars THEN lstrip(Tail(s), chars) ELSE s

RECURSIVE rstrip(_, _)
rstrip(s, chars) ==
    IF s # << >> /\ s[Len(s)] \in chars
    THEN rstrip(SubSeq(s, 1, Len(s) - 1), chars)
    ELSE s

\* re.sub(r"\s+", " ", ...): every run of whitespace becomes one space
RECURSIVE CollapseWs(_)
CollapseWs(s) ==
    IF s = << >> THEN << >>
    ELSE IF IsSpace(s[1])
         THEN << " " >> \o CollapseWs(lstrip(Tail(s), {" ", "nbsp"}))
         ELSE << s[1] >> \o CollapseWs(Tail(s))

normalize_ws(s) == rstrip(lstrip(CollapseWs(s), {" "}), {" "})

BULLET_CHARS == {"bullet", "*", "middot", "-", " "}

strip_bullets(s) ==
    rstrip(lstrip(lstrip(normalize_ws(s), BULLET_CHARS), {" "}), {" "})

\* int of a string of digits
RECURSIVE ToInt(_)
ToInt(s) ==
    IF s = << >> THEN 0 ELSE 10 * ToInt(SubSeq(s, 1, Len(s) - 1)) + DigitVal(s[Len(s)])

AllDigits(s) == \A i \in 1..Len(s) : IsDigit(s[i])

\* f"{n:02d}" and f"{n:04d}"
Pad2(n) == << DigitChar(n \div 10), DigitChar(n % 10) >>

Pad4(n) ==
    << DigitChar(n \div 1000), DigitChar((n \div 100) % 10),
       DigitChar((n \div 10) % 10), DigitChar(n % 10) >>

(***************************************************************************)
(* Sort key: first_time_token, parse_date, event_sort_key                   *)
(***************************************************************************)

NO_TIME_TOKEN == << "9", "9", ":", "9", "9" >>

\* \d{1,2}:\d{2} matched at position i: the greedy two-digit hour is tried
\* first, then the one-digit hour; << >> when neither matches.
TimeTokenAt(s, i) ==
    IF /\ i + 4 <= Len(s)
       /\ IsDigit(s[i]) /\ IsDigit(s[i + 1]) /\ s[i + 2] = ":"
       /\ IsDigit(s[i + 3]) /\ IsDigit(s[i + 4])
    THEN SubSeq(s, i, i + 4)
    ELSE IF /\ i + 3 <= Len(s)
            /\ IsDigit(s[i]) /\ s[i + 1] = ":"
            /\ IsDigit(s[i + 2]) /\ IsDigit(s[i + 3])
         THEN SubSeq(s, i, i + 3)
         ELSE << >>

HasTimeToken(s) == \E i \in 1..Len(s) : TimeTokenAt(s, i) # << >>

first_time_token(s) ==
    IF HasTimeToken(s)
    THEN LET i == CHOOSE k \in 1..Len(s) :
                      /\ TimeTokenAt(s, k) # << >>
                      /\ \A l \in 1..(k - 1) : TimeTokenAt(s, l) = << >>
         IN  TimeTokenAt(s, i)
    ELSE NO_TIME_TOKEN

\* position of the first "." of s, 0 when there is none
FirstDot(s) ==
    IF \E i \in 1..Len(s) : s[i] = "."
    THEN CHOOSE i \in 1..Len(s) : s[i] = "." /\ \A l \in 1..(i - 1) : s[l] # "."
    ELSE 0

\* %d of strptime: 3[0-1]|[1-2]\d|0[1-9]|[1-9]| [1-9]
IsDayField(f) ==
    \/ Len(f) = 2 /\ f[1] = "3" /\ f[2] \in {"0", "1"}
    \/ Len(f) = 2 /\ f[1] \in {"1", "2"} /\ IsDigit(f[2])
    \/ Len(f) = 2 /\ f[1] = "0" /\ IsDigit(f[2]) /\ f[2] # "0"
    \/ Len(f) = 1 /\ IsDigit(f[1]) /\ f[1] # "0"
    \/ Len(f) = 2 /\ f[1] = " " /\ IsDigit(f[2]) /\ f[2] # "0"

\* %m of strptime: 1[0-2]|0[1-9]|[1-9]
IsMonthField(f) ==
    \/ Len(f) = 2 /\ f[1] = "1" /\ f[2] \in {"0", "1", "2"}
    \/ Len(f) = 2 /\ f[1] = "0" /\ IsDigit(f[2]) /\ f[2] # "0"
    \/ Len(f) = 1 /\ IsDigit(f[1]) /\ f[1] # "0"

\* %Y of strptime: \d\d\d\d, and nothing may follow it
IsYearField(f) == Len(f) = 4 /\ AllDigits(f)

IsLeap(y) == (y % 4 = 0 /\ y % 100 # 0) \/ y % 400 = 0

DaysInMonth(y, m) ==
    IF m = 2 THEN (IF IsLeap(y) THEN 29 ELSE 28)
    ELSE IF m \in {4, 6, 9, 11} THEN 30 ELSE 31

\* None, as the value no date equals
None == << >>

\* datetime.strptime(d, "%d.%m.%Y").date(), None on ValueError; a date is
\* the triple << year, month, day >>
parse_date(d) ==
    LET p1 == FirstDot(d)
        f1 == SubSeq(d, 1, p1 - 1)
        r1 == SubSeq(d, p1 + 1, Len(d))
        p2 == FirstDot(r1)
        f2 == SubSeq(r1, 1, p2 - 1)
        f3 == SubSeq(r1, p2 + 1, Len(r1))
    IN  IF p1 = 0 \/ p2 = 0 THEN None
        ELSE IF ~(IsDayField(f1) /\ IsMonthField(f2) /\ IsYearField(f3)) THEN None
        ELSE LET day == ToInt(lstrip(f1, {" "}))
                 mon == ToInt(f2)
                 yr  == ToInt(f3)
             IN  IF yr < 1 \/ day > DaysInMonth(yr, mon) THEN None
                 ELSE << yr, mon, day >>

\* datetime.max.date()
MAX_DATE == << 9999, 12, 31 >>

\* date.isoformat()
isoformat(d) == Pad4(d[1]) \o << "-" >> \o Pad2(d[2]) \o << "-" >> \o Pad2(d[3])

event_sort_key(ev) ==
    LET p == parse_date(normalize_ws(ev.datum))
        d == IF p = None THEN MAX_DATE ELSE p
        t == first_time_token(normalize_ws(ev.zeit))
    IN  << isoformat(d), t, lower(normalize_ws(ev.title)) >>

\* tuple < tuple on sort keys
KeyLess(a, b) ==
    IF a[1] # b[1] THEN StrLess(a[1], b[1])
    ELSE IF a[2] # b[2] THEN StrLess(a[2], b[2])
    ELSE StrLess(a[3], b[3])

\* events beside their sort keys: what sorted computes of its input first
Keyed(evs) ==
    [i \in 1..Len(evs) |-> [event |-> evs[i], key |-> event_sort_key(evs[i])]] \o << >>

\* The events of a keyed list in ascending order of the keys, events with
\* equal keys in the order of the list: an event goes behind the events with
\* a smaller key and behind the earlier events with an equal key.  (The
\* sets of one element and the concatenation with << >> make TLC compute
\* the list and the positions once.)
SortedByKey(keyed) ==
    CHOOSE sorted \in
        { LET n      == Len(ks)
              Pos(i) == 1 + Cardinality({ j \in 1..n : KeyLess(ks[j].key, ks[i].key) })
                          + Cardinality({ j \in 1..(i - 1) : ks[j].key = ks[i].key })
          IN  CHOOSE out \in
                  { [p \in 1..n |-> ks[CHOOSE i \in 1..n : place[i] = p].event] \o << >> :
                        place \in { [i \in 1..n |-> Pos(i)] \o << >> } } : TRUE
            : ks \in { keyed } } : TRUE

\* sorted(events, key=event_sort_key)
sorted_events(evs) == SortedByKey(Keyed(evs))

(***************************************************************************)
(* Identity: sha_uid, stable_text_uid                                       *)
(***************************************************************************)

\* "|".join of four strings, the text that stable_text_uid hashes
JoinBar(a, b, c, d) == a \o << "|" >> \o b \o << "|" >> \o c \o << "|" >> \o d

\* hashlib.sha1(raw).hexdigest() is taken to be collision free: a digest is
\* represented by the text it was computed from.
sha1(raw) == raw

sha_uid(prefix, raw) == << prefix, sha1(raw) >>

stable_text_uid(date_str, title, time_str, location) ==
    << "txt", sha1(JoinBar(date_str, lower(normalize_ws(title)),
                           lower(normalize_ws(time_str)),
                           lower(normalize_ws(location)))) >>

(***************************************************************************)
(* SessionNet: the summary text block and the linked detail pages           *)
(***************************************************************************)

HEADER_LINE == << "A", "k", "t", "u", "e", "l", "l", "e", " ", "S", "i", "t", "z", "u", "n", "g", "e", "n" >>

TRAILER_PREFIX == << "S", "o", "f", "t", "w", "a", "r", "e", ":" >>

DAY_TOKENS ==
    { << "M", "o" >>, << "D", "i" >>, << "M", "i" >>, << "D", "o" >>,
      << "F", "r" >>, << "S", "a" >>, << "S", "o" >> }

StartsWith(s, prefix) ==
    Len(s) >= Len(prefix) /\ SubSeq(s, 1, Len(prefix)) = prefix

\* soup.get_text("\n", strip=True).split("\n"), normalised, empties dropped
RECURSIVE FlattenLines(_)
FlattenLines(raw) ==
    IF raw = << >> THEN << >>
    ELSE LET x == normalize_ws(raw[1])
         IN  (IF x = << >> THEN << >> ELSE << x >>) \o FlattenLines(Tail(raw))

\* \d{2}\.\d{2}\.\d{4} at position i of s
DatePatternAt(s, i) ==
    /\ i + 9 <= Len(s)
    /\ IsDigit(s[i]) /\ IsDigit(s[i + 1]) /\ s[i + 2] = "."
    /\ IsDigit(s[i + 3]) /\ IsDigit(s[i + 4]) /\ s[i + 5] = "."
    /\ IsDigit(s[i + 6]) /\ IsDigit(s[i + 7])
    /\ IsDigit(s[i + 8]) /\ IsDigit(s[i + 9])

\* re.match(r"^(\d{2}\.\d{2}\.\d{4})\b(.*)$", line)
IsDateLine(line) ==
    /\ DatePatternAt(line, 1)
    /\ IF Len(line) = 10 THEN TRUE ELSE ~IsWordChar(line[11])

\* while j < len(lines) and (not lines[j] or lines[j] in DAY_TOKENS): j += 1
\* no line is passed over
SkipNoiseNone(lines, j) == j

RECURSIVE SkipNoise(_, _)
SkipNoise(lines, j) ==
    IF j <= Len(lines) /\ (lines[j] = << >> \/ lines[j] \in DAY_TOKENS)
    THEN SkipNoise(lines, j + 1)
    ELSE j

\* while j < len(lines) and not lines[j]: j += 1
RECURSIVE SkipBlank(_, _)
SkipBlank(lines, j) ==
    IF j <= Len(lines) /\ lines[j] = << >> THEN SkipBlank(lines, j + 1) ELSE j

TextEvent(date_str, title, time_line, location_line) ==
    [ uid    |-> stable_text_uid(date_str, title, time_line, location_line),
      title  |-> title,
      datum  |-> date_str,
      zeit   |-> time_line,
      ort    |-> location_line,
      source |-> "sessionnet_text" ]

\* The while loop of parse_text_events_from_info: the cursor i is 1-based.
RECURSIVE ScanTextEvents(_, _, _)
ScanTextEvents(lines, i, events) ==
    IF i > Len(lines) THEN events
    ELSE IF StartsWith(lines[i], TRAILER_PREFIX) THEN events
    ELSE IF lines[i] \in DAY_TOKENS THEN ScanTextEvents(lines, i + 1, events)
    ELSE IF ~IsDateLine(lines[i]) THEN ScanTextEvents(lines, i + 1, events)
    ELSE LET line     == lines[i]
             date_str == SubSeq(line, 1, 10)
             rest     == normalize_ws(SubSeq(line, 11, Len(line)))
             j0       == SkipBlank(lines, i + 1)
         IN  IF rest = << >> /\ j0 > Len(lines) THEN events
             ELSE LET title == IF rest # << >> THEN rest ELSE normalize_ws(lines[j0])
                      j1    == IF rest # << >> THEN j0 ELSE j0 + 1
                      j2    == SkipNoise(lines, j1)
                  IN  IF j2 > Len(lines) THEN events
                      ELSE LET time_line == strip_bullets(lines[j2])
                               j3        == SkipNoise(lines, j2 + 1)
                               location_line ==
                                   IF j3 <= Len(lines) THEN strip_bullets(lines[j3])
                                   ELSE << >>
                           IN  ScanTextEvents(lines, j3 + 1,
                                   Append(events, TextEvent(date_str, title,
                                                  time_line, location_line)))

\* raw: the text lines of the info page as get_text yields them
parse_text_events_from_info(raw) ==
    LET lines == FlattenLines(raw)
    IN  IF \E i \in 1..Len(lines) : lines[i] = HEADER_LINE
        THEN LET idx == CHOOSE i \in 1..Len(lines) :
                            /\ lines[i] = HEADER_LINE
                            /\ \A l \in 1..(i - 1) : lines[l] # HEADER_LINE
             IN  ScanTextEvents(lines, idx + 1, << >>)
        ELSE << >>

KSINR_TOKEN == << "_", "_", "k", "s", "i", "n", "r", "=" >>

\* the digits of s from position i on, as far as they go
RECURSIVE DigitRun(_, _)
DigitRun(s, i) ==
    IF i <= Len(s) /\ IsDigit(s[i]) THEN << s[i] >> \o DigitRun(s, i + 1) ELSE << >>

\* re.search(r"__ksinr=(\d+)", href): the id, or None
KsinrAt(href, i) ==
    IF i + Len(KSINR_TOKEN) - 1 <= Len(href)
       /\ SubSeq(href, i, i + Len(KSINR_TOKEN) - 1) = KSINR_TOKEN
    THEN DigitRun(href, i + Len(KSINR_TOKEN))
    ELSE << >>

extract_ksinr(href) ==
    IF \E i \in 1..Len(href) : KsinrAt(href, i) # << >>
    THEN LET i == CHOOSE k \in 1..Len(href) :
                      /\ KsinrAt(href, k) # << >>
                      /\ \A l \in 1..(k - 1) : KsinrAt(href, l) = << >>
         IN  KsinrAt(href, i)
    ELSE None

\* The first loop of parse_linked_events_from_info: the hrefs that carry a
\* session id, the first occurrence of each id only.
RECURSIVE DetailLinks(_, _)
DetailLinks(hrefs, seen) ==
    IF hrefs = << >> THEN << >>
    ELSE LET ksinr == extract_ksinr(hrefs[1])
         IN  IF ksinr = None \/ ksinr \in seen
             THEN DetailLinks(Tail(hrefs), seen)
             ELSE << [ksinr |-> ksinr, href |-> hrefs[1]] >>
                      \o DetailLinks(Tail(hrefs), seen \cup {ksinr})

\* pick_value_from_detail: the line after the first line that equals the
\* label and has a successor, "" when there is none
pick_value_from_detail(page, label) ==
    LET lines == FlattenLines(page)
    IN  IF \E i \in 1..(Len(lines) - 1) : lines[i] = label
        THEN LET i == CHOOSE k \in 1..(Len(lines) - 1) :
                          /\ lines[k] = label
                          /\ \A l \in 1..(k - 1) : lines[l] # label
             IN  lines[i + 1]
        ELSE << >>

LABEL_GREMIUM == << "G", "r", "e", "m", "i", "u", "m" >>
LABEL_DATUM == << "D", "a", "t", "u", "m" >>
LABEL_ZEIT == << "Z", "e", "i", "t" >>
LABEL_RAUM == << "R", "a", "u", "m" >>

\* fetch_session_details on a page that was fetched, with the uid and the
\* source that parse_linked_events_from_info adds
\* a record whose uid is made of the session id and the title of the page
LinkedEventByTitle(ksinr, page) ==
    [ uid    |-> << "ksinr", ksinr \o pick_value_from_detail(page, LABEL_GREMIUM) >>,
      title  |-> pick_value_from_detail(page, LABEL_GREMIUM),
      datum  |-> pick_value_from_detail(page, LABEL_DATUM),
      zeit   |-> pick_value_from_detail(page, LABEL_ZEIT),
      ort    |-> pick_value_from_detail(page, LABEL_RAUM),
      source |-> "sessionnet_detail" ]

LinkedEvent(ksinr, page) ==
    [ uid    |-> << "ksinr", ksinr >>,
      title  |-> pick_value_from_detail(page, LABEL_GREMIUM),
      datum  |-> pick_value_from_detail(page, LABEL_DATUM),
      zeit   |-> pick_value_from_detail(page, LABEL_ZEIT),
      ort    |-> pick_value_from_detail(page, LABEL_RAUM),
      source |-> "sessionnet_detail" ]

(***************************************************************************)
(* Witzenhausen events: discovery of the permalinks and the detail pages    *)
(***************************************************************************)

WITZ_BASE == << "h", "t", "t", "p", "s", ":", "/", "/", "w", "w", "w", ".", "w", "i", "t", "z", "e", "n", "h", "a", "u", "s", "e", "n", ".", "e", "u" >>

\* https://www.witzenhausen.eu/veranstaltungen/
WITZ_EVENT_PREFIX == WITZ_BASE \o << "/", "v", "e", "r", "a", "n", "s", "t", "a", "l", "t", "u", "n", "g", "e", "n", "/" >>

\* re.match(r"^https://www\.witzenhausen\.eu/veranstaltungen/[^/]+/?$", u)
IsEventUrl(u) ==
    /\ StartsWith(u, WITZ_EVENT_PREFIX)
    /\ LET slug == SubSeq(u, Len(WITZ_EVENT_PREFIX) + 1, Len(u))
           body == IF slug # << >> /\ slug[Len(slug)] = "/"
                   THEN SubSeq(slug, 1, Len(slug) - 1) ELSE slug
       IN  body # << >> /\ \A i \in 1..Len(body) : body[i] # "/"

\* u.rstrip("/") + "/"
CanonicalUrl(u) == rstrip(u, {"/"}) \o << "/" >>

\* str.strip() of a URL
StripWs(u) == rstrip(lstrip(u, {" ", "nbsp"}), {" ", "nbsp"})

\* default of the parameter max_urls
MAX_URLS == 800

\* The loop "for u in urls" of the sitemap branch.  An entry that is empty
\* or outside WITZ_BASE is passed over; behind every other entry the loop
\* ends if max_urls URLs are found.
SitemapEntryCounts(u) == StripWs(u) # << >> /\ StartsWith(StripWs(u), WITZ_BASE)

FoundInPrefix(urls, found, k, Counts(_), Url(_)) ==
    found \cup { CanonicalUrl(Url(urls[i])) :
                   i \in { l \in 1..k : Counts(urls[l]) /\ IsEventUrl(Url(urls[l])) } }

\* the entries the loop looks at: all of them, or those up to its break
LoopEnd(urls, found, Counts(_), Url(_)) ==
    LET Breaks(k) == /\ Counts(urls[k])
                     /\ Cardinality(FoundInPrefix(urls, found, k, Counts, Url)) >= MAX_URLS
    IN  IF Cardinality(FoundInPrefix(urls, found, Len(urls), Counts, Url)) < MAX_URLS
        THEN Len(urls)
        ELSE IF \E k \in 1..Len(urls) : Breaks(k)
        THEN CHOOSE k \in 1..Len(urls) : Breaks(k) /\ \A l \in 1..(k - 1) : ~Breaks(l)
        ELSE Len(urls)

CollectSitemapUrls(urls, found) ==
    FoundInPrefix(urls, found, LoopEnd(urls, found, SitemapEntryCounts, StripWs),
                  SitemapEntryCounts, StripWs)

\* The URLs one sitemap candidate yields.  A response is
\*   [ok |-> FALSE]                          the fetch raised
\*   [ok |-> TRUE, kind |-> "urlset", ...]   urls: the <loc> entries
\*   [ok |-> TRUE, kind |-> "index", ...]    subs: the nested sitemaps, each
\*        [events: its URL contains "veranstaltungen", ok: fetched and
\*         parsed, urls: its <loc> entries]
\*   [ok |-> TRUE, kind |-> "other"]         neither marker in the text
\*   [ok |-> TRUE, kind |-> "broken"]        the XML does not parse
RECURSIVE NestedSitemapUrls(_)
NestedSitemapUrls(subs) ==
    IF subs = << >> THEN << >>
    ELSE (IF subs[1].events /\ subs[1].ok THEN subs[1].urls ELSE << >>)
             \o NestedSitemapUrls(Tail(subs))

SitemapUrls(resp) ==
    IF resp.kind = "index" THEN NestedSitemapUrls(resp.subs)
    ELSE IF resp.kind = "urlset" THEN resp.urls
    ELSE << >>

\* for cand in WITZ_SITEMAP_CANDIDATES: ... break at the first candidate
\* that yields an event URL
RECURSIVE TrySitemaps(_, _)
TrySitemaps(resps, found) ==
    IF resps = << >> THEN found
    ELSE IF ~resps[1].ok THEN TrySitemaps(Tail(resps), found)
    ELSE LET f == CollectSitemapUrls(SitemapUrls(resps[1]), found)
         IN  IF f # {} THEN f ELSE TrySitemaps(Tail(resps), f)

\* The fallback loop over the anchors of the listing page: an empty href is
\* passed over, a relative one (it starts with "/") is joined to WITZ_BASE.
ListingEntryCounts(h) == StripWs(h) # << >>

\* urllib.parse.urljoin(WITZ_BASE, href) for an href that starts with "/".
\* The base has the scheme https, the host www.witzenhausen.eu and an empty
\* path.  The characters "#", ";", "[", "]", tab and newline are not among
\* the characters of the model, so a reference has neither fragment nor
\* params and urlsplit neither removes a character nor raises.

\* the first position at or after i of a character of cs in s, Len(s) + 1
\* when there is none
RECURSIVE IndexFrom(_, _, _)
IndexFrom(s, cs, i) ==
    IF i > Len(s) THEN Len(s) + 1
    ELSE IF s[i] \in cs THEN i
    ELSE IndexFrom(s, cs, i + 1)

\* path.split("/")
RECURSIVE SplitPath(_)
SplitPath(path) ==
    LET k == IndexFrom(path, {"/"}, 1)
    IN  IF k > Len(path) THEN << path >>
        ELSE << SubSeq(path, 1, k - 1) >> \o SplitPath(SubSeq(path, k + 1, Len(path)))

\* "/".join(resolved_path)
RECURSIVE JoinPath(_)
JoinPath(segments) ==
    IF segments = << >> THEN << >>
    ELSE IF Len(segments) = 1 THEN segments[1]
    ELSE segments[1] \o << "/" >> \o JoinPath(Tail(segments))

\* for seg in segments: ".." pops the last resolved segment if there is
\* one, "." is passed over, every other segment is appended
RECURSIVE ResolveSegments(_, _)
ResolveSegments(segments, resolved_path) ==
    IF segments = << >> THEN resolved_path
    ELSE IF segments[1] = << ".", "." >>
    THEN ResolveSegments(Tail(segments),
                         IF resolved_path = << >> THEN << >>
                         ELSE SubSeq(resolved_path, 1, Len(resolved_path) - 1))
    ELSE IF segments[1] = << "." >>
    THEN ResolveSegments(Tail(segments), resolved_path)
    ELSE ResolveSegments(Tail(segments), Append(resolved_path, segments[1]))

\* the path urljoin resolves from an absolute path: a last segment "." or
\* ".." leaves a trailing "/", an empty result is "/"
ResolvedPath(path) ==
    LET segments == SplitPath(path)
        last     == segments[Len(segments)]
        resolved == ResolveSegments(segments, << >>)
        joined   == JoinPath(IF last = << "." >> \/ last = << ".", "." >>
                             THEN Append(resolved, << >>) ELSE resolved)
    IN  IF joined = << >> THEN << "/" >> ELSE joined

\* urlsplit(url, scheme="https") of a reference that starts with "/":
\* behind "//" the netloc runs up to the next "/" or "?", the query begins
\* behind the first "?"
SplitReference(url) ==
    LET net  == Len(url) >= 2 /\ url[2] = "/"
        stop == IF net THEN IndexFrom(url, {"/", "?"}, 3) ELSE 1
        rest == SubSeq(url, stop, Len(url))
        q    == IndexFrom(rest, {"?"}, 1)
    IN  [ netloc |-> IF net THEN SubSeq(url, 3, stop - 1) ELSE << >>,
          path   |-> SubSeq(rest, 1, q - 1),
          query  |-> SubSeq(rest, q + 1, Len(rest)) ]

\* urlunsplit(("https", netloc, path, query, "")) with a netloc: a path
\* that does not start with "/" gets one, an empty query is left out
UnsplitUrl(netloc, path, query) ==
    << "h", "t", "t", "p", "s", ":", "/", "/" >> \o netloc
        \o (IF path # << >> /\ path[1] # "/" THEN << "/" >> ELSE << >>) \o path
        \o (IF query # << >> THEN << "?" >> \o query ELSE << >>)

\* the host of WITZ_BASE: urlparse(WITZ_BASE).netloc
WITZ_NETLOC == SubSeq(WITZ_BASE, 9, Len(WITZ_BASE))

\* A reference with a netloc keeps its path and query as they are; one
\* without path takes the path of the base, which is empty; every other
\* path is resolved
UrlJoinBase(url) ==
    LET ref == SplitReference(url)
    IN  IF ref.netloc # << >> THEN UnsplitUrl(ref.netloc, ref.path, ref.query)
        ELSE IF ref.path = << >> THEN UnsplitUrl(WITZ_NETLOC, << >>, ref.query)
        ELSE UnsplitUrl(WITZ_NETLOC, ResolvedPath(ref.path), ref.query)

\* href = a["href"].strip(); if href.startswith("/"): href = urljoin(WITZ_BASE, href)
ListingUrl(h) ==
    IF StripWs(h) # << >> /\ StripWs(h)[1] = "/" THEN UrlJoinBase(StripWs(h))
    ELSE StripWs(h)

CollectListingUrls(hrefs, found) ==
    FoundInPrefix(hrefs, found, LoopEnd(hrefs, found, ListingEntryCounts, ListingUrl),
                  ListingEntryCounts, ListingUrl)

\* sorted(found): ascending by code points
SortedStrings(S) ==
    LET ranked == { << x, Cardinality({ y \in S : StrLess(y, x) }) >> : x \in S }
    IN  [i \in 1..Cardinality(S) |-> (CHOOSE p \in ranked : p[2] = i - 1)[1]] \o << >>

\* site: [sitemaps: the responses of the three candidates,
\*        listing: [ok, hrefs] the response of the listing page]
discover_witz_event_urls(site) ==
    LET found1 == TrySitemaps(site.sitemaps, {})
        found2 == IF found1 = {}
                  THEN (IF site.listing.ok
                        THEN CollectListingUrls(site.listing.hrefs, {})
                        ELSE {})
                  ELSE found1
    IN  SortedStrings(found2)

\* s.find(sub): the first position at which sub occurs in s, 0 when none
Find(s, sub) ==
    IF \E i \in 1..(Len(s) - Len(sub) + 1) : SubSeq(s, i, i + Len(sub) - 1) = sub
    THEN CHOOSE i \in 1..(Len(s) - Len(sub) + 1) :
             /\ SubSeq(s, i, i + Len(sub) - 1) = sub
             /\ \A l \in 1..(i - 1) : SubSeq(s, l, l + Len(sub) - 1) # sub
    ELSE 0

Contains(s, sub) == Find(s, sub) # 0

\* \b of the re module between positions i - 1 and i of s
WordBoundary(s, i) ==
    LET before == i > 1 /\ i - 1 <= Len(s) /\ IsWordChar(s[i - 1])
        after  == i >= 1 /\ i <= Len(s) /\ IsWordChar(s[i])
    IN  before # after

RECURSIVE SkipSpaces(_, _)
SkipSpaces(s, i) ==
    IF i <= Len(s) /\ IsSpace(s[i]) THEN SkipSpaces(s, i + 1) ELSE i

IsLower(c) == Ord("a") <= Ord(c) /\ Ord(c) <= Ord("z")

\* [A-Za-z] and the umlauts of the model's alphabet
IsLetter(c) == IsUpper(c) \/ IsLower(c) \/ c = "ouml"

RECURSIVE SkipLetters(_, _)
SkipLetters(s, i) ==
    IF i <= Len(s) /\ IsLetter(s[i]) THEN SkipLetters(s, i + 1) ELSE i

\* str.replace(old, new)
RECURSIVE Replace(_, _, _)
Replace(s, old, new) ==
    IF Len(s) < Len(old) THEN s
    ELSE IF SubSeq(s, 1, Len(old)) = old
         THEN new \o Replace(SubSeq(s, Len(old) + 1, Len(s)), old, new)
         ELSE << s[1] >> \o Replace(Tail(s), old, new)

\* The keys of GERMAN_MONTHS that a lookup can hit: the month text has its
\* umlauts replaced before it is looked up.
GERMAN_MONTHS ==
    { << << "j", "a", "n" >>, << "0", "1" >> >>,
      << << "j", "a", "n", "u", "a", "r" >>, << "0", "1" >> >>,
      << << "f", "e", "b" >>, << "0", "2" >> >>,
      << << "f", "e", "b", "r", "u", "a", "r" >>, << "0", "2" >> >>,
      << << "m", "a", "e", "r", "z" >>, << "0", "3" >> >>,
      << << "a", "p", "r" >>, << "0", "4" >> >>,
      << << "a", "p", "r", "i", "l" >>, << "0", "4" >> >>,
      << << "m", "a", "i" >>, << "0", "5" >> >>,
      << << "j", "u", "n" >>, << "0", "6" >> >>,
      << << "j", "u", "n", "i" >>, << "0", "6" >> >>,
      << << "j", "u", "l" >>, << "0", "7" >> >>,
      << << "j", "u", "l", "i" >>, << "0", "7" >> >>,
      << << "a", "u", "g" >>, << "0", "8" >> >>,
      << << "a", "u", "g", "u", "s", "t" >>, << "0", "8" >> >>,
      << << "s", "e", "p" >>, << "0", "9" >> >>,
      << << "s", "e", "p", "t" >>, << "0", "9" >> >>,
      << << "s", "e", "p", "t", "e", "m", "b", "e", "r" >>, << "0", "9" >> >>,
      << << "o", "k", "t" >>, << "1", "0" >> >>,
      << << "o", "k", "t", "o", "b", "e", "r" >>, << "1", "0" >> >>,
      << << "n", "o", "v" >>, << "1", "1" >> >>,
      << << "n", "o", "v", "e", "m", "b", "e", "r" >>, << "1", "1" >> >>,
      << << "d", "e", "z" >>, << "1", "2" >> >>,
      << << "d", "e", "c" >>, << "1", "2" >> >>,
      << << "d", "e", "z", "e", "m", "b", "e", "r" >>, << "1", "2" >> >> }

\* \d{1,2}\.\s*[A-Za-z...]+\.?\s*\d{4} at position i of s with a day of h
\* digits: [ok, day, mon, year, stop], stop being the position after the
\* match.  dot is the position of the first dot, l0 and l1 are the ends of
\* the month's letters, y0 is the start of the year.  (Each set of one
\* element holds a position as a value, so that TLC computes it once.)
MonthDateFields(s, i, dot, l0, l1, y0) ==
    IF /\ dot <= Len(s)
       /\ AllDigits(SubSeq(s, i, dot - 1))
       /\ s[dot] = "."
       /\ l1 > l0
       /\ y0 + 3 <= Len(s)
       /\ AllDigits(SubSeq(s, y0, y0 + 3))
    THEN [ok |-> TRUE, day |-> SubSeq(s, i, dot - 1), mon |-> SubSeq(s, l0, l1 - 1),
          year |-> SubSeq(s, y0, y0 + 3), stop |-> y0 + 4]
    ELSE [ok |-> FALSE, day |-> << >>, mon |-> << >>, year |-> << >>, stop |-> 0]

MonthDateYear(s, i, dot, l0, l1) ==
    CHOOSE m \in
        { MonthDateFields(s, i, dot, l0, l1, y0) :
              y0 \in { SkipSpaces(s, IF l1 <= Len(s) /\ s[l1] = "." THEN l1 + 1 ELSE l1) } } :
        TRUE

MonthDateMonth(s, i, dot, l0) ==
    CHOOSE m \in { MonthDateYear(s, i, dot, l0, l1) : l1 \in { SkipLetters(s, l0) } } : TRUE

MonthDateAt(s, i, h) ==
    CHOOSE m \in { MonthDateMonth(s, i, i + h, l0) : l0 \in { SkipSpaces(s, i + h + 1) } } :
        TRUE

\* s: the text after its normalisation; m2, m1: the pattern tried on it
\* with a day of two digits and of one
MonthDateToNumeric(s, m2, m1) ==
    LET m == IF m2.ok /\ m2.stop = Len(s) + 1 THEN m2 ELSE m1
    IN  IF DatePatternAt(s, 1) /\ Len(s) = 10 THEN s
        ELSE IF ~(m.ok /\ m.stop = Len(s) + 1) THEN s
        ELSE IF ~\E e \in GERMAN_MONTHS : e[1] = lower(m.mon) THEN s
        ELSE LET e == CHOOSE x \in GERMAN_MONTHS : x[1] = lower(m.mon)
             IN  Pad2(ToInt(m.day)) \o << "." >> \o e[2] \o << "." >> \o Pad4(ToInt(m.year))

MonthDateOfText(s) ==
    CHOOSE d \in { MonthDateToNumeric(s, m2, m1) :
                       m2 \in { MonthDateAt(s, 1, 2) }, m1 \in { MonthDateAt(s, 1, 1) } } :
        TRUE

parse_de_month_date_to_ddmmyyyy(s0) ==
    CHOOSE d \in
        { MonthDateOfText(s) :
              s \in { normalize_ws(Replace(Replace(normalize_ws(s0), << ".", "." >>,
                                                   << "." >>),
                                           << " ", "," >>, << "," >>)) } } : TRUE

UHR == << "U", "h", "r" >>

\* \b(\d{1,2}:\d{2})\s*Uhr\b at position i of ln with an hour of h digits
WitzTimeAt(ln, i, h) ==
    /\ WordBoundary(ln, i)
    /\ i + h + 2 <= Len(ln)
    /\ AllDigits(SubSeq(ln, i, i + h - 1))
    /\ ln[i + h] = ":"
    /\ IsDigit(ln[i + h + 1]) /\ IsDigit(ln[i + h + 2])
    /\ LET j == SkipSpaces(ln, i + h + 3)
       IN  j + 2 <= Len(ln) /\ SubSeq(ln, j, j + 2) = UHR /\ WordBoundary(ln, j + 3)

\* the first group of the leftmost match in ln, << >> when there is none
WitzTimeToken(ln) ==
    IF \E i \in 1..Len(ln) : WitzTimeAt(ln, i, 2) \/ WitzTimeAt(ln, i, 1)
    THEN LET i == CHOOSE k \in 1..Len(ln) :
                      /\ WitzTimeAt(ln, k, 2) \/ WitzTimeAt(ln, k, 1)
                      /\ \A l \in 1..(k - 1) :
                             ~(WitzTimeAt(ln, l, 2) \/ WitzTimeAt(ln, l, 1))
         IN  IF WitzTimeAt(ln, i, 2) THEN SubSeq(ln, i, i + 4) ELSE SubSeq(ln, i, i + 3)
    ELSE << >>

\* \b(\d{2}\.\d{2}\.\d{4})\b at position i of ln
NumericDateAt(ln, i) ==
    WordBoundary(ln, i) /\ DatePatternAt(ln, i) /\ WordBoundary(ln, i + 10)

\* \b(\d{1,2}\.\s*[A-Za-z...]+\.?\s*\d{4})\b at position i of ln: the match
MonthDateMatch(ln, i) ==
    LET m2 == MonthDateAt(ln, i, 2)
        m1 == MonthDateAt(ln, i, 1)
    IN  IF ~WordBoundary(ln, i) THEN << >>
        ELSE IF m2.ok /\ WordBoundary(ln, m2.stop) THEN SubSeq(ln, i, m2.stop - 1)
        ELSE IF m1.ok /\ WordBoundary(ln, m1.stop) THEN SubSeq(ln, i, m1.stop - 1)
        ELSE << >>

\* what one line yields as the date: m1 first, then m2; << >> for neither
LineDate(ln) ==
    IF \E i \in 1..Len(ln) : NumericDateAt(ln, i)
    THEN LET i == CHOOSE k \in 1..Len(ln) :
                      NumericDateAt(ln, k) /\ \A l \in 1..(k - 1) : ~NumericDateAt(ln, l)
         IN  SubSeq(ln, i, i + 9)
    ELSE IF \E i \in 1..Len(ln) : MonthDateMatch(ln, i) # << >>
    THEN LET i == CHOOSE k \in 1..Len(ln) :
                      /\ MonthDateMatch(ln, k) # << >>
                      /\ \A l \in 1..(k - 1) : MonthDateMatch(ln, l) = << >>
         IN  parse_de_month_date_to_ddmmyyyy(MonthDateMatch(ln, i))
    ELSE << >>

LineHasDate(ln) ==
    \E i \in 1..Len(ln) : NumericDateAt(ln, i) \/ MonthDateMatch(ln, i) # << >>

\* for j in range(time_idx, max(-1, time_idx - 6), -1), 1-based
RECURSIVE FindDate(_, _, _)
FindDate(lines, j, low) ==
    IF j < low THEN << >>
    ELSE IF LineHasDate(lines[j]) THEN LineDate(lines[j])
    ELSE FindDate(lines, j - 1, low)

\* \b\d+\b somewhere in ln (which \b\d{5}\b implies)
HasNumber(ln) ==
    \E i \in 1..Len(ln) :
        /\ IsDigit(ln[i])
        /\ WordBoundary(ln, i)
        /\ WordBoundary(ln, i + Len(DigitRun(ln, i)))

IsLocationLine(ln) ==
    \E low \in { lower(ln) } :
        /\ low \notin { << "v", "e", "r", "a", "n", "s", "t", "a", "l", "t", "e", "r" >>,
                       << "k", "e", "i", "n", "e", " ", "a", "n", "g", "a", "b", "e" >> }
        /\ ~StartsWith(low, << "w", "w", "w", "." >>)
        /\ ~Contains(low, << "h", "t", "t", "p" >>)
        /\ HasNumber(ln)

\* for k in range(time_idx + 1, min(len(lines), time_idx + 8)), 1-based
RECURSIVE FindLocation(_, _, _)
FindLocation(lines, k, high) ==
    IF k > high THEN << >>
    ELSE IF IsLocationLine(lines[k]) THEN lines[k]
    ELSE FindLocation(lines, k + 1, high)

RELATED_MARKER ==
    << "D", "a", "s", " ", "k", "ouml", "n", "n", "t", "e", " ", "S", "i", "e", " ", "a", "u", "c", "h", " ", "i", "n", "t", "e", "r", "e", "s", "s", "i", "e", "r", "e", "n" >>

SKIP_TO_CONTENT == << "S", "k", "i", "p", " ", "t", "o", " ", "c", "o", "n", "t", "e", "n", "t" >>

\* text_all.split(marker)[0].split("\n"): the lines before the marker and
\* what precedes the marker on its own line
RECURSIVE CutAtMarker(_)
CutAtMarker(raw) ==
    IF raw = << >> THEN << >>
    ELSE IF Contains(raw[1], RELATED_MARKER)
         THEN << SubSeq(raw[1], 1, Find(raw[1], RELATED_MARKER) - 1) >>
         ELSE << raw[1] >> \o CutAtMarker(Tail(raw))

\* the fallback title: the first of lines[:20] longer than 3 characters that
\* does not contain "Skip to content"
FallbackTitle(lines) ==
    LET ok(i) == Len(lines[i]) > 3 /\ ~Contains(lines[i], SKIP_TO_CONTENT)
        top   == IF Len(lines) < 20 THEN Len(lines) ELSE 20
    IN  IF \E i \in 1..top : ok(i)
        THEN lines[CHOOSE i \in 1..top : ok(i) /\ \A l \in 1..(i - 1) : ~ok(l)]
        ELSE << >>

\* the index of the first line with a time, 0 for time_idx = None
FirstTimeLine(lines) ==
    IF \E i \in 1..Len(lines) : WitzTimeToken(lines[i]) # << >>
    THEN CHOOSE i \in 1..Len(lines) :
             /\ WitzTimeToken(lines[i]) # << >>
             /\ \A l \in 1..(i - 1) : WitzTimeToken(lines[l]) = << >>
    ELSE 0

\* The steps of parse_witz_event_detail.  (Each set of one element holds
\* what a step has computed, so that TLC computes it once.)

\* the record, from the title of the headings, the lines and time_idx
WitzRecord(url, title0, lines, t) ==
    [ uid    |-> sha_uid("wz", CanonicalUrl(url)),
      title  |-> IF title0 # << >> THEN title0 ELSE FallbackTitle(lines),
      datum  |-> IF t = 0 THEN << >>
                 ELSE FindDate(lines, t, IF t - 5 > 1 THEN t - 5 ELSE 1),
      zeit   |-> IF t = 0 THEN << >> ELSE WitzTimeToken(lines[t]) \o << " " >> \o UHR,
      ort    |-> IF t = 0 THEN << >>
                 ELSE FindLocation(lines, t + 1,
                                   IF Len(lines) < t + 7 THEN Len(lines) ELSE t + 7),
      source |-> "witz" ]

WitzRecordOfLines(url, title0, lines) ==
    CHOOSE ev \in { WitzRecord(url, title0, lines, t) : t \in { FirstTimeLine(lines) } } :
        TRUE

\* parse_witz_event_detail on a page that was fetched.
\* page: [h1, h2: the text of the first such heading, << >> when there is
\*        none; lines: the text lines of the page as get_text yields them]
WitzRecordOfPage(url, pg) ==
    CHOOSE ev \in
        { WitzRecordOfLines(url, title0, lines) :
              title0 \in { IF normalize_ws(pg.h1) # << >> THEN normalize_ws(pg.h1)
                           ELSE normalize_ws(pg.h2) },
              lines  \in { FlattenLines(CutAtMarker(pg.lines)) } } : TRUE

parse_witz_event_detail(url, page) ==
    CHOOSE ev \in { WitzRecordOfPage(url, pg) : pg \in { page } } : TRUE

\* new_urls[:60]
DETAIL_FETCH_LIMIT == 60

Prefix(seq, n) == SubSeq(seq, 1, IF Len(seq) < n THEN Len(seq) ELSE n)

(***************************************************************************)
(* Merge of the two SessionNet views                                        *)
(***************************************************************************)

Signature(ev) == << normalize_ws(ev.datum), lower(normalize_ws(ev.title)) >>

linked_signatures(linked_events) ==
    { Signature(linked_events[i]) : i \in 1..Len(linked_events) }

\* merged[ev["uid"]] = ev on a dict kept as the sequence of its values in
\* insertion order: an existing key keeps its place and gets the new value
DictPut(values, ev) ==
    IF \E i \in 1..Len(values) : values[i].uid = ev.uid
    THEN [i \in 1..Len(values) |-> IF values[i].uid = ev.uid THEN ev ELSE values[i]]
    ELSE Append(values, ev)

RECURSIVE DictFromEvents(_)
DictFromEvents(events) ==
    IF events = << >> THEN << >>
    ELSE DictPut(DictFromEvents(SubSeq(events, 1, Len(events) - 1)), events[Len(events)])

RECURSIVE MergeText(_, _, _)

\* the loop over text_events without its test of the signature
MergeTextUnchecked(values, text_events, sigs) ==
    IF text_events = << >> THEN values
    ELSE MergeText(DictPut(values, text_events[1]), Tail(text_events), sigs)

\* for ev in text_events: a record whose signature a linked record has is
\* passed over, any other is stored under its uid
MergeText(values, text_events, sigs) ==
    IF text_events = << >> THEN values
    ELSE IF Signature(text_events[1]) \in sigs
         THEN MergeText(values, Tail(text_events), sigs)
         ELSE MergeText(DictPut(values, text_events[1]), Tail(text_events), sigs)

\* merged.values() of run
merge_events(linked_events, text_events) ==
    MergeText(DictFromEvents(linked_events), text_events,
              linked_signatures(linked_events))

Uids(events) == { events[i].uid : i \in 1..Len(events) }

(***************************************************************************)
(* The documents the two sites may serve.  Every run draws one info page,   *)
(* one edition of the detail pages and one state of the events site.        *)
(***************************************************************************)

\* info pages: the text lines and the hrefs of the anchors, in page order
InfoDocs ==
    << [ lines |->
            << << "A", "k", "t", "u", "e", "l", "l", "e", " ", "S", "i", "t", "z", "u", "n", "g", "e", "n" >>,
               << "0", "5", ".", "0", "1", ".", "2", "0", "2", "6" >>,
               << "R", "a", "t" >>,
               << "0", "9", ":", "0", "0", " ", "U", "h", "r" >>,
               << "S", "a", "a", "l" >>,
               << "0", "6", ".", "0", "1", ".", "2", "0", "2", "6", " ", "B", "a", "u" >>,
               << "1", "8", ":", "0", "0", " ", "U", "h", "r" >>,
               << "S", "a", "a", "l" >>,
               << "S", "o", "f", "t", "w", "a", "r", "e", ":", " ", "v", "1" >> >>,
          hrefs |-> << << "x", "?", "_", "_", "k", "s", "i", "n", "r", "=", "1" >> >> ],
       [ lines |->
            << << "A", "k", "t", "u", "e", "l", "l", "e", " ", " ", "S", "i", "t", "z", "u", "n", "g", "e", "n" >>,
               << "M", "o" >>,
               << "0", "5", ".", "0", "1", ".", "2", "0", "2", "6" >>,
               << "M", "o" >>,
               << "R", "a", "t" >>,
               << "0", "9", ":", "0", "0", " ", "U", "h", "r" >>,
               << "S", "a", "a", "l" >>,
               << "0", "5", ".", "0", "1", ".", "2", "0", "2", "6", " ", "B", "a", "u" >>,
               << "-", " ", "o", "f", "f", "e", "n" >>,
               << "S", "a", "a", "l" >>,
               << "S", "o", "f", "t", "w", "a", "r", "e", ":", " ", "v", "1" >> >>,
          hrefs |-> << << "x", "?", "_", "_", "k", "s", "i", "n", "r", "=", "1" >>,
                        << "y", "?", "_", "_", "k", "s", "i", "n", "r", "=", "1", "&", "z" >>,
                        << "i", "n", "f", "o", ".", "a", "s", "p" >>,
                        << "x", "?", "_", "_", "k", "s", "i", "n", "r", "=", "2" >> >> ],
       [ lines |->
            << << "A", "k", "t", "u", "e", "l", "l", "e", " ", "S", "i", "t", "z", "u", "n", "g", "e", "n" >>,
               << "0", "5", ".", "0", "1", ".", "2", "0", "2", "6" >>,
               << "B", "a", "u" >>,
               << "9", ":", "0", "0", " ", "U", "h", "r" >>,
               << "S", "a", "a", "l" >>,
               << "0", "5", ".", "0", "1", ".", "2", "0", "2", "6" >>,
               << "R", "a", "t" >>,
               << "o", "f", "f", "e", "n" >>,
               << "S", "a", "a", "l" >>,
               << "2", "9", ".", "0", "2", ".", "2", "0", "2", "5" >>,
               << "R", "a", "t" >>,
               << "1", "8", ":", "0", "0", " ", "U", "h", "r" >>,
               << "S", "a", "a", "l" >>,
               << "3", "1", ".", "1", "2", ".", "9", "9", "9", "9", " ", "R", "a", "t" >>,
               << "o", "f", "f", "e", "n" >>,
               << "S", "a", "a", "l" >>,
               << "S", "o", "f", "t", "w", "a", "r", "e", ":", " ", "v", "1" >> >>,
          hrefs |-> << >> ],
       [ lines |->
            << << "I", "n", "f", "o" >>,
               << "0", "5", ".", "0", "1", ".", "2", "0", "2", "6" >>,
               << "R", "a", "t" >> >>,
          hrefs |-> << << "x", "?", "_", "_", "k", "s", "i", "n", "r", "=", "2" >> >> ],
       [ lines |->
            << << "A", "k", "t", "u", "e", "l", "l", "e", " ", "S", "i", "t", "z", "u", "n", "g", "e", "n" >>,
               << "0", "5", ".", "0", "1", ".", "2", "0", "2", "6" >>,
               << "R", "a", "t" >>,
               << "0", "9", ":", "0", "0", " ", "U", "h", "r" >>,
               << "S", "a", "a", "l" >>,
               << "0", "5", ".", "0", "1", ".", "2", "0", "2", "6" >>,
               << "R", "A", "T" >>,
               << "0", "9", ":", "0", "0", " ", "U", "H", "R" >>,
               << "S", "A", "A", "L" >>,
               << "S", "o", "f", "t", "w", "a", "r", "e", ":", " ", "v", "1" >> >>,
          hrefs |-> << >> ],
       [ lines |-> << << "I", "n", "f", "o" >> >>,
          hrefs |-> << >> ],
       [ lines |->
            << << "A", "k", "t", "u", "e", "l", "l", "e", " ", "S", "i", "t", "z", "u", "n", "g", "e", "n" >>,
               << "0", "5", ".", "0", "1", ".", "2", "0", "2", "6" >>,
               << "R", "a", "t", "|", "B", "a", "u" >>,
               << "9", ":", "0", "0", " ", "U", "h", "r" >>,
               << "S", "a", "a", "l" >>,
               << "0", "5", ".", "0", "1", ".", "2", "0", "2", "6" >>,
               << "R", "a", "t" >>,
               << "B", "a", "u", "|", "9", ":", "0", "0", " ", "U", "h", "r" >>,
               << "S", "a", "a", "l" >>,
               << "S", "o", "f", "t", "w", "a", "r", "e", ":", " ", "v", "1" >> >>,
          hrefs |-> << << "x", "?", "_", "_", "k", "s", "i", "n", "r", "=", "1" >> >> ] >>

\* the detail page of a session in one of its editions
DetailPage(ksinr, edition) ==
    CASE ksinr = << "1" >> /\ edition = 1 ->
          << << "G", "r", "e", "m", "i", "u", "m" >>,
             << "R", "a", "t" >>,
             << "D", "a", "t", "u", "m" >>,
             << "0", "5", ".", "0", "1", ".", "2", "0", "2", "6" >>,
             << "Z", "e", "i", "t" >>,
             << "0", "9", ":", "0", "0", " ", "U", "h", "r" >>,
             << "R", "a", "u", "m" >>,
             << "S", "a", "a", "l" >> >>
      [] ksinr = << "1" >> /\ edition = 2 ->
          << << "G", "r", "e", "m", "i", "u", "m" >>,
             << "B", "a", "u" >>,
             << "D", "a", "t", "u", "m" >>,
             << "0", "6", ".", "0", "1", ".", "2", "0", "2", "6" >>,
             << "Z", "e", "i", "t" >>,
             << "9", ":", "0", "0", " ", "U", "h", "r" >>,
             << "R", "a", "u", "m" >>,
             << "S", "a", "a", "l" >> >>
      [] ksinr = << "2" >> /\ edition = 1 ->
          << << "G", "r", "e", "m", "i", "u", "m" >>,
             << "B", "a", "u" >>,
             << "D", "a", "t", "u", "m" >>,
             << "0", "6", ".", "0", "1", ".", "2", "0", "2", "6" >>,
             << "Z", "e", "i", "t" >>,
             << "1", "8", ":", "0", "0", " ", "U", "h", "r" >>,
             << "R", "a", "u", "m" >>,
             << "S", "a", "a", "l" >> >>
      [] ksinr = << "2" >> /\ edition = 2 ->
          << << "G", "r", "e", "m", "i", "u", "m" >>,
             << "B", "a", "u" >>,
             << "D", "a", "t", "u", "m" >> >>
      [] OTHER -> << >>

\* one URL more than a run fetches
BigSiteSize == DETAIL_FETCH_LIMIT + 1

BigUrls ==
    [n \in 1..BigSiteSize |->
        WITZ_EVENT_PREFIX \o << "e", DigitChar(n \div 10), DigitChar(n % 10), "/" >>]

\* states of the events site: its sitemap responses and its listing page
WitzSites ==
    << [ sitemaps |->
            << [ok |-> FALSE],
               [ok |-> FALSE],
               [ok |-> FALSE] >>,
          listing |-> [ok |-> FALSE, hrefs |-> << >>] ],
       [ sitemaps |->
            << [ok |-> TRUE, kind |-> "urlset",
               urls |-> << WITZ_EVENT_PREFIX \o << "a" >>,
                          WITZ_EVENT_PREFIX \o << "b", "/" >>,
                          WITZ_EVENT_PREFIX,
                          << "h", "t", "t", "p", "s", ":", "/", "/", "e", "x", "a", "m", "p", "l", "e", ".", "o", "r", "g", "/", "v", "e", "r", "a", "n", "s", "t", "a", "l", "t", "u", "n", "g", "e", "n", "/", "x", "/" >> >>],
               [ok |-> FALSE],
               [ok |-> FALSE] >>,
          listing |-> [ok |-> FALSE, hrefs |-> << >>] ],
       [ sitemaps |->
            << [ok |-> FALSE],
               [ok |-> TRUE, kind |-> "index",
               subs |->
               << [events |-> TRUE, ok |-> TRUE, urls |-> << WITZ_EVENT_PREFIX \o << "b", "/" >> >>],
                  [events |-> FALSE, ok |-> TRUE, urls |-> << WITZ_EVENT_PREFIX \o << "c", "/" >> >>],
                  [events |-> TRUE, ok |-> FALSE, urls |-> << >>] >>],
               [ok |-> TRUE, kind |-> "broken"] >>,
          listing |-> [ok |-> TRUE, hrefs |-> << << "/", "x", "/", ".", ".", "/", "v", "e", "r", "a", "n", "s", "t", "a", "l", "t", "u", "n", "g", "e", "n", "/", ".", "/", "a", "/" >> >>] ],
       [ sitemaps |->
            << [ok |-> TRUE, kind |-> "other"],
               [ok |-> TRUE, kind |-> "broken"],
               [ok |-> TRUE, kind |-> "urlset",
               urls |-> << << "h", "t", "t", "p", "s", ":", "/", "/", "w", "w", "w", ".", "w", "i", "t", "z", "e", "n", "h", "a", "u", "s", "e", "n", ".", "e", "u", "/", "k", "o", "n", "t", "a", "k", "t", "/" >> >>] >>,
          listing |-> [ok |-> TRUE, hrefs |-> << << "/", "v", "e", "r", "a", "n", "s", "t", "a", "l", "t", "u", "n", "g", "e", "n", "/", "a", "/" >>,
                                       << "/", "/", "w", "w", "w", ".", "w", "i", "t", "z", "e", "n", "h", "a", "u", "s", "e", "n", ".", "e", "u", "/", "v", "e", "r", "a", "n", "s", "t", "a", "l", "t", "u", "n", "g", "e", "n", "/", "a" >>,
                                       WITZ_EVENT_PREFIX \o << "c" >>,
                                       << "/", "k", "o", "n", "t", "a", "k", "t", "/" >> >>] ],
       [ sitemaps |->
            << [ok |-> TRUE, kind |-> "urlset",
               urls |-> BigUrls],
               [ok |-> FALSE],
               [ok |-> FALSE] >>,
          listing |-> [ok |-> FALSE, hrefs |-> << >>] ] >>

URL_A == WITZ_EVENT_PREFIX \o << "a", "/" >>
URL_B == WITZ_EVENT_PREFIX \o << "b", "/" >>
URL_C == WITZ_EVENT_PREFIX \o << "c", "/" >>

\* the page behind an event URL
WitzPage(u) ==
    CASE u = URL_A ->
    [ h1 |-> << "F", "e", "s", "t" >>, h2 |-> << >>,
      lines |-> << << "F", "e", "s", "t" >>,
                 << "0", "5", ".", "0", "1", ".", "2", "0", "2", "6" >>,
                 << "9", ":", "0", "0", " ", "U", "h", "r" >>,
                 << "M", "a", "r", "k", "t", " ", "1" >>,
                 << "E", "n", "d", "e", " ", "D", "a", "s", " ", "k", "ouml", "n", "n", "t", "e", " ", "S", "i", "e", " ", "a", "u", "c", "h", " ", "i", "n", "t", "e", "r", "e", "s", "s", "i", "e", "r", "e", "n" >>,
                 << "1", "0", ":", "0", "0", " ", "U", "h", "r" >> >> ]
      [] u = URL_B ->
    [ h1 |-> << >>, h2 |-> << "B", "a", "u" >>,
      lines |-> << << "B", "a", "u" >>,
                 << "6", ".", " ", "J", "a", "n", ".", " ", "2", "0", "2", "6" >>,
                 << "1", "8", ":", "0", "0", " ", "U", "h", "r" >>,
                 << "V", "e", "r", "a", "n", "s", "t", "a", "l", "t", "e", "r" >>,
                 << "w", "w", "w", ".", "x", ".", "d", "e", " ", "1" >>,
                 << "S", "a", "a", "l", " ", "2" >> >> ]
      [] u = URL_C ->
    [ h1 |-> << >>, h2 |-> << >>,
      lines |-> << << "S", "k", "i", "p", " ", "t", "o", " ", "c", "o", "n", "t", "e", "n", "t" >>,
                 << "M", "a", "r", "k", "t" >>,
                 << "o", "f", "f", "e", "n" >> >> ]
      [] OTHER ->
    [ h1 |-> << "F", "e", "s", "t" >>, h2 |-> << >>,
      lines |-> << << "F", "e", "s", "t" >>,
                 << "0", "6", ".", "0", "1", ".", "2", "0", "2", "6", " ", "1", "8", ":", "0", "0", " ", "U", "h", "r" >> >> ]

\* What the extractors yield on the documents above.  These are tables so
\* that they are computed once; a sequence is concatenated with << >> to the
\* same end.
TextEvents ==
    [i \in 1..Len(InfoDocs) |-> parse_text_events_from_info(InfoDocs[i].lines)] \o << >>

SiteUrls ==
    [i \in 1..Len(WitzSites) |-> discover_witz_event_urls(WitzSites[i])] \o << >>

\* a discovered URL with the record parse_witz_event_detail makes of its
\* page when the fetch succeeds, and the sort key of that record
SitePage(u) ==
    CHOOSE entry \in
        { [ url |-> u, uid |-> sha_uid("wz", CanonicalUrl(u)), event |-> ev,
            key |-> event_sort_key(ev) ] :
              ev \in { parse_witz_event_detail(u, WitzPage(u)) } } : TRUE

SitePagesOf(urls) ==
    [i \in 1..Len(urls) |-> [k \in 1..Len(urls[i]) |-> SitePage(urls[i][k])] \o << >>]
        \o << >>

SitePages == CHOOSE pages \in { SitePagesOf(urls) : urls \in { SiteUrls } } : TRUE

\* for u in new_urls[:60]: a page whose fetch raises is passed over
FetchWitzDetails(pages, failing) ==
    LET Fetched(p) == p.url \notin failing
    IN  SelectSeq(pages, Fetched)

\* [u for u in urls if sha_uid("wz", u.rstrip("/") + "/") not in state_posted]
NewUrls(pages, state_posted) ==
    LET IsNew(p) == p.uid \notin state_posted
    IN  SelectSeq(pages, IsNew)

\* pages: what discover_witz_event_urls returned, as in SitePages; failing:
\* the URLs whose fetch raises.  new_events holds the entries of the pages
\* that were fetched: their records beside the sort keys.
\* parse_witz_events with the current uids taken from the new URLs only
parse_witz_events_of_new(pages, failing, state_posted) ==
    [ current_uids |-> { NewUrls(pages, state_posted)[i].uid :
                             i \in 1..Len(NewUrls(pages, state_posted)) },
      new_events   |-> FetchWitzDetails(Prefix(NewUrls(pages, state_posted),
                                               DETAIL_FETCH_LIMIT),
                                        failing) ]

parse_witz_events(pages, failing, state_posted) ==
    [ current_uids |-> { pages[i].uid : i \in 1..Len(pages) },
      new_events   |-> FetchWitzDetails(Prefix(NewUrls(pages, state_posted),
                                               DETAIL_FETCH_LIMIT),
                                        failing) ]

(***************************************************************************)
(* run: one execution of the program                                        *)
(***************************************************************************)

\* The second loop of parse_linked_events_from_info when every fetch
\* succeeds: one record per link, in page order.
RECURSIVE FetchLinkedEvents(_, _)
FetchLinkedEvents(links, edition) ==
    IF links = << >> THEN << >>
    ELSE << LinkedEvent(links[1].ksinr, DetailPage(links[1].ksinr, edition)) >>
             \o FetchLinkedEvents(Tail(links), edition)

parse_linked_events_from_info(hrefs, edition) ==
    FetchLinkedEvents(DetailLinks(hrefs, {}), edition)

\* the list without the test against posted
NewEventsUnfiltered(keyed, posted) == keyed

\* [ev for ev in sessionnet_events if ev["uid"] not in posted], on the
\* events beside their keys
NewEvents(keyed, posted) ==
    LET IsNew(k) == k.event.uid \notin posted
    IN  SelectSeq(keyed, IsNew)

\* load_state and state.get("posted", []): a missing file reads as empty
load_posted(file) == IF file.exists THEN file.posted ELSE {}

\* a first-run test that looks at the file only
first_run_by_file(file, posted) == ~file.exists

\* first_run = (not os.path.exists(STATE_FILE)) or (len(posted) == 0)
first_run(file, posted) == ~file.exists \/ posted = {}

\* the editions of the detail pages
Editions == 1..2

\* lines 548-562 of run on every info page and edition: the two views of
\* SessionNet, merged and sorted
SessionnetEvents ==
    [d \in 1..Len(InfoDocs) |->
        [e \in Editions |->
            sorted_events(merge_events(
                parse_linked_events_from_info(InfoDocs[d].hrefs, e),
                TextEvents[d]))] \o << >>] \o << >>

\* the same beside the sort keys
SessionnetKeyed ==
    [d \in 1..Len(InfoDocs) |->
        [e \in Editions |-> Keyed(SessionnetEvents[d][e])] \o << >>] \o << >>

\* the two views of SessionNet and their merge, on every info page and
\* edition, beside the signatures of the linked records and the signature
\* of every text record
MergeViews ==
    [d \in 1..Len(InfoDocs) |->
        [e \in Editions |->
            LET linked == parse_linked_events_from_info(InfoDocs[d].hrefs, e)
            IN  [ linked    |-> linked,
                  text      |-> TextEvents[d],
                  sigs      |-> linked_signatures(linked),
                  text_sigs |-> [i \in 1..Len(TextEvents[d]) |->
                                    Signature(TextEvents[d][i])] \o << >>,
                  merged    |-> merge_events(linked, TextEvents[d]) ]] \o << >>] \o << >>

\* What run computes before it sends anything, for the documents of world w
\* and the state file it finds.
RunPlan(w, file) ==
    LET sessionnet_events == SessionnetEvents[w.doc][w.edition]
        posted            == load_posted(file)
        witz              == parse_witz_events(SitePages[w.site], w.wfail, posted)
        current_uids      == Uids(sessionnet_events) \cup witz.current_uids
        to_post           == NewEvents(SessionnetKeyed[w.doc][w.edition], posted)
                                 \o witz.new_events
    IN  [ posted       |-> posted,
          current_uids |-> current_uids,
          bootstrap    |-> first_run(file, posted) /\ ~w.post_existing,
          to_post      |-> SortedByKey(to_post) ]

\* the number of executions of the program that are explored
MaxRuns == 3

\* the info pages with which the states of the events site are combined;
\* the other info pages are explored with an events site that yields nothing
MixedDocs == {3, 6}

\* the state of the events site with more pages than one run fetches
BigSite == Len(WitzSites)

\* the info pages with which that state of the events site is combined
BigSiteDocs == {6}

\* The documents of one run: the info page, the edition of the detail pages
\* (of interest if the info page links any), the state of the events site,
\* the event pages whose fetch raises (among those the site has) and
\* POST_EXISTING.
Worlds ==
    { x \in [ doc : 1..Len(InfoDocs), edition : Editions, site : 1..Len(WitzSites),
              wfail : { {}, {URL_A} }, post_existing : BOOLEAN ] :
        /\ DetailLinks(InfoDocs[x.doc].hrefs, {}) = << >> => x.edition = 1
        /\ \A u \in x.wfail : \E k \in 1..Len(SiteUrls[x.site]) : SiteUrls[x.site][k] = u
        /\ x.site = 1 \/ x.doc \in MixedDocs
        /\ x.site = BigSite => x.doc \in BigSiteDocs }

\* The documents a run may find beside the state file it loads:
\* POST_EXISTING is read at line 575 behind first_run only, so it is left
\* off when the loaded seen-set is not empty.
WorldsOfRun(file) ==
    { x \in Worlds : x.post_existing => load_posted(file) = {} }

NoWorld ==
    [ doc |-> 0, edition |-> 0, site |-> 0, wfail |-> {}, post_existing |-> FALSE ]

NoPlan == [ posted |-> {}, current_uids |-> {}, bootstrap |-> FALSE, to_post |-> << >> ]

NoFile == [exists |-> FALSE, posted |-> {}]

NoInput == [ raw |-> << >>, wf |-> FALSE, groups |-> << >> ]

NoPrev == [ w |-> NoWorld, to_post |-> << >>, partial |-> FALSE ]

VARIABLES
    state_file,   \* state.json: [exists, posted]
    pc,           \* "idle": no run; "sending": in the delivery loop; "done": run over
    w,            \* the documents of the run
    plan,         \* what the run computed before sending
    file0,        \* state.json as the run found it
    posted,       \* the local set posted of run
    nsent,        \* the number of notifications the run has sent
    outcome,      \* "running", or how the run ended
    runs,         \* the runs started so far
    sent_before,  \* the uids earlier runs sent notifications for, while no run has faulted
    fault_seen,   \* an earlier run ended in an unhandled fault
    gone,         \* the uids among sent_before that a later run did not observe
    prev,         \* the documents and the delivery list of the run before, if
                  \* a raising tg_send ended it, and whether it had sent any
    views,        \* the info pages with links, and the edition of their detail
                  \* pages, that earlier runs completed on, while no run has faulted
    scan_input,   \* parse_text_events_from_info: the text lines of the page, and
                  \* the event groups they were made of, if they were
    scan_lines,   \* its list lines
    scan_i,       \* its cursor i, 1-based
    scan_events,  \* its list events
    scan_pc,      \* "locate", "loop", "returned"; "off" while no scan is modelled
    page_in,      \* parse_witz_event_detail: the URLs and pages it is called with
    page_out      \* the records it returned for them

run_vars ==
    << state_file, pc, w, plan, file0, posted, nsent, outcome, runs, sent_before,
       fault_seen, gone, prev, views >>

scan_vars == << scan_input, scan_lines, scan_i, scan_events, scan_pc >>

page_vars == << page_in, page_out >>

vars == << run_vars, scan_vars, page_vars >>

\* no scan of a text block is in progress
ScanOff ==
    /\ scan_input = NoInput
    /\ scan_lines = << >>
    /\ scan_i = 0
    /\ scan_events = << >>
    /\ scan_pc = "off"

\* no event page is being parsed
PageOff ==
    /\ page_in = << >>
    /\ page_out = << >>

RunInit ==
    /\ state_file = NoFile
    /\ pc = "idle"
    /\ w = NoWorld
    /\ plan = NoPlan
    /\ file0 = NoFile
    /\ posted = {}
    /\ nsent = 0
    /\ outcome = "none"
    /\ runs = 0
    /\ sent_before = {}
    /\ fault_seen = FALSE
    /\ gone = {}
    /\ prev = NoPrev
    /\ views = {}

Init ==
    /\ RunInit
    /\ ScanOff
    /\ PageOff

\* the uids the run has sent a notification for, in the order of sending
SentUids == [i \in 1..nsent |-> plan.to_post[i].uid]

SentSet == { plan.to_post[i].uid : i \in 1..nsent }

Faults == {"fault_info", "fault_detail", "fault_send"}

\* the program is started
BeginRun ==
    /\ pc = "idle"
    /\ runs < MaxRuns
    /\ runs' = runs + 1
    /\ file0' = state_file
    /\ UNCHANGED << nsent, sent_before, fault_seen, gone, prev, views >>
    /\ UNCHANGED << scan_vars, page_vars >>

\* session.get(INFO_URL) raises: run ends at its second line
RunInfoFetchRaises ==
    /\ BeginRun
    /\ pc' = "done"
    /\ outcome' = "fault_info"
    /\ UNCHANGED << state_file, w, plan, posted >>

\* the fetch of a detail page raises inside parse_linked_events_from_info:
\* nothing catches it, run ends there
RunDetailFetchRaises ==
    /\ BeginRun
    /\ \E d \in 1..Len(InfoDocs) :
          /\ DetailLinks(InfoDocs[d].hrefs, {}) # << >>
          /\ w' = [NoWorld EXCEPT !.doc = d]
    /\ pc' = "done"
    /\ outcome' = "fault_detail"
    /\ UNCHANGED << state_file, plan, posted >>

\* run from its first line to the delivery loop, or to the return of the
\* first-run branch, which writes the current uids and sends nothing
RunStart ==
    /\ BeginRun
    /\ \E x \in WorldsOfRun(state_file) :
          \E p \in { RunPlan(x, state_file) } :
              /\ w' = x
              /\ plan' = p
              /\ posted' = p.posted
              /\ \/ /\ p.bootstrap
                    /\ state_file' = [exists |-> TRUE, posted |-> p.current_uids]
                    /\ pc' = "done"
                    /\ outcome' = "bootstrap"
                 \/ /\ ~p.bootstrap
                    /\ pc' = "sending"
                    /\ outcome' = "running"
                    /\ UNCHANGED state_file

\* an iteration of the delivery loop that writes state.json as well
SendSaving ==
    /\ pc = "sending"
    /\ nsent < Len(plan.to_post)
    /\ nsent' = nsent + 1
    /\ posted' = posted \cup {plan.to_post[nsent + 1].uid}
    /\ state_file' = [exists |-> TRUE, posted |-> posted']
    /\ UNCHANGED << pc, w, plan, file0, outcome, runs, sent_before, fault_seen, gone,
                    prev, views >>
    /\ UNCHANGED << scan_vars, page_vars >>

\* one iteration of the delivery loop: tg_send returns, the uid is added
Send ==
    /\ pc = "sending"
    /\ nsent < Len(plan.to_post)
    /\ nsent' = nsent + 1
    /\ posted' = posted \cup {plan.to_post[nsent + 1].uid}
    /\ UNCHANGED << state_file, pc, w, plan, file0, outcome, runs, sent_before,
                    fault_seen, gone, prev, views >>
    /\ UNCHANGED << scan_vars, page_vars >>

\* tg_send raises (raise_for_status): run ends before save_state
SendRaises ==
    /\ pc = "sending"
    /\ nsent < Len(plan.to_post)
    /\ pc' = "done"
    /\ outcome' = "fault_send"
    /\ UNCHANGED << state_file, w, plan, file0, posted, nsent, runs, sent_before,
                    fault_seen, gone, prev, views >>
    /\ UNCHANGED << scan_vars, page_vars >>

\* the end of run without posted.update(current_uids)
CommitDeliveredOnly ==
    /\ pc = "sending"
    /\ nsent = Len(plan.to_post)
    /\ posted' = posted
    /\ state_file' = [exists |-> TRUE, posted |-> posted']
    /\ pc' = "done"
    /\ outcome' = "committed"
    /\ UNCHANGED << w, plan, file0, nsent, runs, sent_before, fault_seen, gone, prev,
                    views >>
    /\ UNCHANGED << scan_vars, page_vars >>

\* after the loop: posted.update(current_uids) and save_state
Commit ==
    /\ pc = "sending"
    /\ nsent = Len(plan.to_post)
    /\ posted' = posted \cup plan.current_uids
    /\ state_file' = [exists |-> TRUE, posted |-> posted']
    /\ pc' = "done"
    /\ outcome' = "committed"
    /\ UNCHANGED << w, plan, file0, nsent, runs, sent_before, fault_seen, gone, prev,
                    views >>
    /\ UNCHANGED << scan_vars, page_vars >>

\* the process ends: its variables are gone, state.json stays.  What the
\* run sent is remembered for the runs to come.
Exit ==
    /\ pc = "done"
    /\ pc' = "idle"
    /\ fault_seen' = (fault_seen \/ outcome \in Faults)
    /\ sent_before' = IF fault_seen' THEN {} ELSE sent_before \cup SentSet
    /\ gone' = IF fault_seen' THEN {} ELSE gone \cup (sent_before \ plan.current_uids)
    /\ prev' = IF outcome = "fault_send"
               THEN [w |-> w, to_post |-> plan.to_post, partial |-> nsent > 0]
               ELSE NoPrev
    /\ w' = NoWorld
    /\ plan' = NoPlan
    /\ file0' = NoFile
    /\ posted' = {}
    /\ nsent' = 0
    /\ outcome' = "none"
    /\ views' = IF fault_seen' THEN {}
                 ELSE IF DetailLinks(InfoDocs[w.doc].hrefs, {}) # << >>
                      THEN views \cup {[doc |-> w.doc, edition |-> w.edition]}
                      ELSE views
    /\ UNCHANGED << state_file, runs >>
    /\ UNCHANGED << scan_vars, page_vars >>

Next ==
    \/ RunInfoFetchRaises
    \/ RunDetailFetchRaises
    \/ RunStart
    \/ Send
    \/ SendRaises
    \/ Commit
    \/ Exit

Spec == Init /\ [][Next]_vars

(***************************************************************************)
(* parse_witz_event_detail on its own: the loop of parse_witz_events over   *)
(* event URLs and the pages behind them.  A page may embed a structured     *)
(* event object (a script element of the document), which get_text does not *)
(* yield and no line of parse_witz_event_detail reads.                       *)
(***************************************************************************)

\* startDate and endDate of the structured event objects
LD_START == << "2", "0", "2", "6", "-", "0", "3", "-", "1", "0", "T", "1", "9", ":", "0", "0", ":", "0", "0" >>

LD_END == << "2", "0", "2", "6", "-", "0", "3", "-", "1", "0", "T", "2", "1", ":", "0", "0", ":", "0", "0" >>

\* a page embeds no structured event object
NoObject == << >>

\* the page p with the structured event object ld embedded
WithObject(p, ld) == [ h1 |-> p.h1, h2 |-> p.h2, lines |-> p.lines, ld |-> ld ]

\* the pages an event URL may serve
DetailPages ==
    { WithObject(WitzPage(u), NoObject) : u \in {URL_A, URL_B, URL_C} }
        \cup { WithObject(WitzPage(URL_A), [startDate |-> LD_START, endDate |-> LD_END]),
               WithObject([ h1 |-> << "K", "o", "n", "z", "e", "r", "t" >>, h2 |-> << >>,
                            lines |-> << << "K", "o", "n", "z", "e", "r", "t" >>,
                                         << "M", "a", "r", "k", "t", " ", "1" >> >> ],
                          [startDate |-> LD_START, endDate |-> LD_START]) }

\* a call of parse_witz_event_detail: the URL, whether the fetch succeeds,
\* and the page it yields
PageCalls ==
    { [url |-> u, ok |-> TRUE, page |-> p] : u \in {URL_A, URL_B, URL_C}, p \in DetailPages }
        \cup { [url |-> u, ok |-> FALSE, page |-> WithObject(WitzPage(u), NoObject)] :
                   u \in {URL_A, URL_B, URL_C} }

\* the number of calls of parse_witz_event_detail that are explored
MaxCalls == 2

PageInit ==
    /\ RunInit
    /\ ScanOff
    /\ page_in \in [1..MaxCalls -> PageCalls]
    /\ page_out = << >>

\* ev = parse_witz_event_detail(u); new_events.append(ev)
ParsePage ==
    /\ page_in # << >>
    /\ page_in[1].ok
    /\ \E ev \in { parse_witz_event_detail(page_in[1].url, page_in[1].page) } :
           page_out' = Append(page_out, [call |-> page_in[1], event |-> ev])
    /\ page_in' = Tail(page_in)
    /\ UNCHANGED << run_vars, scan_vars >>

\* raise_for_status raises in parse_witz_event_detail: except Exception: continue
ParsePageRaises ==
    /\ page_in # << >>
    /\ ~page_in[1].ok
    /\ page_in' = Tail(page_in)
    /\ UNCHANGED page_out
    /\ UNCHANGED << run_vars, scan_vars >>

PageNext ==
    \/ ParsePage
    \/ ParsePageRaises

PageSpec == PageInit /\ [][PageNext]_vars

(***************************************************************************)
(* parse_text_events_from_info on its own, one iteration of its while loop  *)
(* at a time                                                                 *)
(***************************************************************************)

\* the lines of the k-th event group of a well-formed text block
GroupDate(k) == << "0", DigitChar(k), ".", "0", "2", ".", "2", "0", "2", "6" >>

GroupTitle(k) == << "A", "u", "s", "s", "c", "h", "u", "s", "s", " " >> \o << DigitChar(k) >>

GroupTime(k) == << "1", DigitChar(k), ":", "0", "0", " ", "U", "h", "r" >>

GroupLocation(k) == << "R", "a", "t", "h", "a", "u", "s", " " >> \o << DigitChar(k) >>

DAY_LINE == << "M", "o" >>

TRAILER_LINE == << "S", "o", "f", "t", "w", "a", "r", "e", ":", " ", "v", "1" >>

\* The shapes of an event group: whether a day-name line stands before its
\* date line, time line and location line, and whether the date line
\* carries the title or a title line follows it.
GroupShapes ==
    [ day_date : BOOLEAN, titled : BOOLEAN, day_time : BOOLEAN, day_location : BOOLEAN ]

GroupLines(g, k) ==
    (IF g.day_date THEN << DAY_LINE >> ELSE << >>)
        \o (IF g.titled THEN << GroupDate(k) \o << " " >> \o GroupTitle(k) >>
            ELSE << GroupDate(k), GroupTitle(k) >>)
        \o (IF g.day_time THEN << DAY_LINE >> ELSE << >>)
        \o << GroupTime(k) >>
        \o (IF g.day_location THEN << DAY_LINE >> ELSE << >>)
        \o << GroupLocation(k) >>

RECURSIVE GroupsLines(_, _)
GroupsLines(groups, k) ==
    IF k > Len(groups) THEN << >>
    ELSE GroupLines(groups[k], k) \o GroupsLines(groups, k + 1)

\* the header line, the groups, a trailer line
WellFormedBlock(groups) == << HEADER_LINE >> \o GroupsLines(groups, 1) \o << TRAILER_LINE >>

\* the number of groups of the well-formed text blocks that are explored
MaxGroups == 2

\* the number of lines after the header of the other text blocks
MaxLines == 3

\* the lines the other text blocks are made of
LineAlphabet ==
    { HEADER_LINE, TRAILER_LINE, DAY_LINE, GroupDate(1),
      GroupDate(1) \o << " " >> \o GroupTitle(1), GroupTime(1), GroupLocation(1) }

SeqsUpTo(S, n) == UNION { [1..k -> S] : k \in 0..n }

\* the text blocks the scan is explored on
ScanInputs ==
    { [ raw |-> WellFormedBlock(groups), wf |-> TRUE, groups |-> groups ] :
          groups \in SeqsUpTo(GroupShapes, MaxGroups) }
        \cup { [ raw |-> << HEADER_LINE >> \o tail, wf |-> FALSE, groups |-> << >> ] :
                   tail \in SeqsUpTo(LineAlphabet, MaxLines) }
        \cup { [ raw |-> tail, wf |-> FALSE, groups |-> << >> ] :
                   tail \in SeqsUpTo(LineAlphabet \ {HEADER_LINE}, 2) }

\* The body of the loop from the date line at i on: the event it appends and
\* the line the cursor moves to, unless the lines end before the title or
\* the time line.
EventAt(lines, i) ==
    LET line     == lines[i]
        date_str == SubSeq(line, 1, 10)
        rest     == normalize_ws(SubSeq(line, 11, Len(line)))
        j0       == SkipBlank(lines, i + 1)
    IN  IF rest = << >> /\ j0 > Len(lines) THEN [complete |-> FALSE]
        ELSE LET title == IF rest # << >> THEN rest ELSE normalize_ws(lines[j0])
                 j1    == IF rest # << >> THEN j0 ELSE j0 + 1
                 j2    == SkipNoise(lines, j1)
             IN  IF j2 > Len(lines) THEN [complete |-> FALSE]
                 ELSE LET time_line == strip_bullets(lines[j2])
                          j3        == SkipNoise(lines, j2 + 1)
                          location_line ==
                              IF j3 <= Len(lines) THEN strip_bullets(lines[j3])
                              ELSE << >>
                      IN  [ complete |-> TRUE,
                            event    |-> TextEvent(date_str, title, time_line,
                                                   location_line),
                            next     |-> j3 + 1 ]

HasHeader(lines) == \E k \in 1..Len(lines) : lines[k] = HEADER_LINE

\* What lines 143-145 make of the text blocks, and what the body of the loop
\* yields at each of their date lines.  These are tables so that they are
\* computed once.
ScanLines == [inp \in ScanInputs |-> FlattenLines(inp.raw)] @@ << >>

EventsAt ==
    [inp \in ScanInputs |->
        CHOOSE t \in
            { [i \in 1..Len(lines) |->
                  IF IsDateLine(lines[i]) THEN EventAt(lines, i)
                  ELSE [complete |-> FALSE]] \o << >> :
                      lines \in { ScanLines[inp] } } : TRUE] @@ << >>

ScanInit ==
    /\ RunInit
    /\ PageOff
    /\ scan_input \in ScanInputs
    /\ scan_lines = << >>
    /\ scan_i = 0
    /\ scan_events = << >>
    /\ scan_pc = "locate"

\* lines 143-153: the lines are normalised, the header is not among them
ScanNoHeader ==
    /\ scan_pc = "locate"
    /\ \E lines \in { ScanLines[scan_input] } :
           /\ ~HasHeader(lines)
           /\ scan_lines' = lines
    /\ scan_pc' = "returned"
    /\ UNCHANGED << scan_input, scan_i, scan_events >>
    /\ UNCHANGED << run_vars, page_vars >>

\* lines 143-156: the cursor is set behind the first header line
ScanLocate ==
    /\ scan_pc = "locate"
    /\ \E lines \in { ScanLines[scan_input] } :
           /\ HasHeader(lines)
           /\ scan_lines' = lines
           /\ scan_i' = 1 + CHOOSE k \in 1..Len(lines) :
                                /\ lines[k] = HEADER_LINE
                                /\ \A l \in 1..(k - 1) : lines[l] # HEADER_LINE
    /\ scan_pc' = "loop"
    /\ UNCHANGED << scan_input, scan_events >>
    /\ UNCHANGED << run_vars, page_vars >>

\* the loop condition fails: return events
ScanEnd ==
    /\ scan_pc = "loop"
    /\ scan_i > Len(scan_lines)
    /\ scan_pc' = "returned"
    /\ UNCHANGED << scan_input, scan_lines, scan_i, scan_events >>
    /\ UNCHANGED << run_vars, page_vars >>

\* if line.startswith("Software:"): break
ScanTrailer ==
    /\ scan_pc = "loop"
    /\ scan_i <= Len(scan_lines)
    /\ StartsWith(scan_lines[scan_i], TRAILER_PREFIX)
    /\ scan_pc' = "returned"
    /\ UNCHANGED << scan_input, scan_lines, scan_i, scan_events >>
    /\ UNCHANGED << run_vars, page_vars >>

\* if line in DAY_TOKENS: i += 1; continue
ScanDayToken ==
    /\ scan_pc = "loop"
    /\ scan_i <= Len(scan_lines)
    /\ ~StartsWith(scan_lines[scan_i], TRAILER_PREFIX)
    /\ scan_lines[scan_i] \in DAY_TOKENS
    /\ scan_i' = scan_i + 1
    /\ UNCHANGED << scan_input, scan_lines, scan_events, scan_pc >>
    /\ UNCHANGED << run_vars, page_vars >>

\* the line the loop is at matches none of its rules
Unmatched(lines, i) ==
    /\ ~StartsWith(lines[i], TRAILER_PREFIX)
    /\ lines[i] \notin DAY_TOKENS
    /\ ~IsDateLine(lines[i])

\* an iteration on an unmatched line that ends the scan
ScanSkipLineBreaks ==
    /\ scan_pc = "loop"
    /\ scan_i <= Len(scan_lines)
    /\ Unmatched(scan_lines, scan_i)
    /\ scan_pc' = "returned"
    /\ UNCHANGED << scan_input, scan_lines, scan_i, scan_events >>
    /\ UNCHANGED << run_vars, page_vars >>

\* if not m: i += 1; continue
ScanSkipLine ==
    /\ scan_pc = "loop"
    /\ scan_i <= Len(scan_lines)
    /\ Unmatched(scan_lines, scan_i)
    /\ scan_i' = scan_i + 1
    /\ UNCHANGED << scan_input, scan_lines, scan_events, scan_pc >>
    /\ UNCHANGED << run_vars, page_vars >>

\* lines 173-210: the date line opens an event, which is appended
ScanEvent ==
    /\ scan_pc = "loop"
    /\ scan_i <= Len(scan_lines)
    /\ ~StartsWith(scan_lines[scan_i], TRAILER_PREFIX)
    /\ scan_lines[scan_i] \notin DAY_TOKENS
    /\ IsDateLine(scan_lines[scan_i])
    /\ \E e \in { EventsAt[scan_input][scan_i] } :
           /\ e.complete
           /\ scan_events' = Append(scan_events, e.event)
           /\ scan_i' = e.next
    /\ UNCHANGED << scan_input, scan_lines, scan_pc >>
    /\ UNCHANGED << run_vars, page_vars >>

\* the breaks at lines 184 and 191: the lines end before the title or the
\* time line of the event
ScanCutShort ==
    /\ scan_pc = "loop"
    /\ scan_i <= Len(scan_lines)
    /\ ~StartsWith(scan_lines[scan_i], TRAILER_PREFIX)
    /\ scan_lines[scan_i] \notin DAY_TOKENS
    /\ IsDateLine(scan_lines[scan_i])
    /\ ~EventsAt[scan_input][scan_i].complete
    /\ scan_pc' = "returned"
    /\ UNCHANGED << scan_input, scan_lines, scan_i, scan_events >>
    /\ UNCHANGED << run_vars, page_vars >>

ScanNext ==
    \/ ScanNoHeader
    \/ ScanLocate
    \/ ScanEnd
    \/ ScanTrailer
    \/ ScanDayToken
    \/ ScanSkipLine
    \/ ScanEvent
    \/ ScanCutShort

\* the function runs on: some iteration is taken as long as one can be
ScanSpec == ScanInit /\ [][ScanNext]_vars /\ WF_vars(ScanNext)

\* the scan has returned what parse_text_events_from_info, as the run
\* applies it, yields on the same lines
ScanAgrees ==
    scan_pc = "returned" => scan_events = parse_text_events_from_info(scan_input.raw)

(***************************************************************************)
(* Properties                                                               *)
(***************************************************************************)

\* the run has reached its end by one of its two returns
Completed == outcome \in {"bootstrap", "committed"}

\* the date of an event as the sort key reads it
EventDate(ev) == parse_date(normalize_ws(ev.datum))

\* the time field of an event holds a time token
Timed(ev) == HasTimeToken(normalize_ws(ev.zeit))

\* calendar order on dates
DateBefore(a, b) ==
    \/ a[1] < b[1]
    \/ a[1] = b[1] /\ a[2] < b[2]
    \/ a[1] = b[1] /\ a[2] = b[2] /\ a[3] < b[3]

InSeq(r, seq) == \E i \in 1..Len(seq) : seq[i] = r

\* C1: as long as no run has ended in a fault, no uid has a notification
\* sent for it in two runs (whatever the sources showed in between), and no
\* run sends two notifications for one uid.
C1_NotifiedAtMostOnce ==
    /\ Cardinality(SentSet) = nsent
    /\ ~fault_seen => SentSet \cap sent_before = {}

\* a run without fault has sent notifications while it observed again a uid
\* that an earlier run notified and a run in between did not observe
C1_Witness ==
    /\ ~fault_seen
    /\ outcome = "committed"
    /\ nsent > 0
    /\ gone \cap plan.current_uids # {}

\* C2: in a run that reaches its commit, every observed uid that the loaded
\* seen-set lacks has had its notification sent.
C2_EveryNewUidNotified ==
    outcome = "committed" => (plan.current_uids \ plan.posted) \subseteq SentSet

\* C3: a run that finds no uid in state.json (or no state.json) while
\* POST_EXISTING is off sends nothing and leaves exactly the observed uids
\* in state.json.
C3_BootstrapSeedsSilently ==
    (Completed /\ load_posted(file0) = {} /\ ~w.post_existing)
        => /\ nsent = 0
           /\ state_file = [exists |-> TRUE, posted |-> plan.current_uids]

\* a bootstrap run on a state.json that exists and is empty, with uids to seed
C3_Witness ==
    /\ outcome = "bootstrap"
    /\ file0.exists
    /\ Cardinality(plan.current_uids) >= 2

\* C4: a run that ends in a fault leaves state.json as it found it, and the
\* run that follows a raising tg_send on the same documents has the same
\* delivery list again, the events sent before the fault included.
C4_FaultCommitsNothing ==
    /\ outcome \in Faults => state_file = file0
    /\ (prev # NoPrev /\ w = prev.w)
           => /\ ~plan.bootstrap
              /\ plan.to_post = prev.to_post

\* after a run that tg_send ended once it had sent some notifications, the
\* run on the same documents has sent all of the list, at least three
C4_Witness ==
    /\ prev.partial
    /\ w = prev.w
    /\ outcome = "committed"
    /\ nsent = Len(prev.to_post)
    /\ nsent >= 3

\* C5: after a run that reached its end, state.json holds the uids it held
\* at the start of the run and the uids the run observed, and no other.
C5_SeenSetGrowsByObserved ==
    Completed
        => /\ state_file.exists
           /\ state_file.posted = load_posted(file0) \cup plan.current_uids

\* a committed run that kept a uid it did not observe and added a uid it
\* sent no notification for
C5_Witness ==
    /\ outcome = "committed"
    /\ nsent > 0
    /\ load_posted(file0) \ plan.current_uids # {}
    /\ (plan.current_uids \ load_posted(file0)) \ SentSet # {}

\* C6: no run ends because the fetch of one detail page failed, and a run
\* in which the fetch of an event page failed has sent the notifications of
\* the other new event pages.
C6_PageFailureDropsOnePage ==
    /\ outcome # "fault_detail"
    /\ (outcome = "committed" /\ w.wfail # {})
           => LET pages == SitePages[w.site]
              IN  \A k \in 1..Len(pages) :
                      ( /\ k <= DETAIL_FETCH_LIMIT
                        /\ pages[k].url \notin w.wfail
                        /\ pages[k].uid \notin plan.posted )
                          => pages[k].uid \in SentSet

\* C7: no run ends because the info page could not be fetched, and a run in
\* which the discovery of event URLs found nothing has sent the
\* notifications of the new SessionNet events.
C7_SourceFailureLeavesOtherSource ==
    /\ outcome # "fault_info"
    /\ (outcome = "committed" /\ SiteUrls[w.site] = << >>)
           => (Uids(SessionnetEvents[w.doc][w.edition]) \ plan.posted) \subseteq SentSet

\* C8: in the merge of a run, every linked record is among the merged
\* records, no text record with the signature of a linked record is, and of
\* the text records with no such signature that share a uid the last one of
\* the block is among them.  Text records that share a uid need not share
\* a signature: the uid joins date, title, time and location with "|", so
\* a "|" in the title or the time moves the border between the two.
C8_MergePrecedence ==
    Completed
        => LET v    == MergeViews[w.doc][w.edition]
               sigs == v.sigs
               n    == Len(v.text)
           IN  /\ \A i \in 1..Len(v.linked) : InSeq(v.linked[i], v.merged)
               /\ \A i \in 1..n :
                      v.text_sigs[i] \in sigs => ~InSeq(v.text[i], v.merged)
               /\ \A i \in 1..n :
                      v.text_sigs[i] \notin sigs
                          => \E j \in i..n :
                                 /\ v.text[j].uid = v.text[i].uid
                                 /\ v.text_sigs[j] \notin sigs
                                 /\ \A l \in (j + 1)..n :
                                        v.text[l].uid = v.text[i].uid
                                            => v.text_sigs[l] \in sigs
                                 /\ InSeq(v.text[j], v.merged)

\* a run whose merge had a linked record, a text record without the
\* signature of a linked record and, behind it, a text record with the same
\* uid and the signature of the linked record
C8_Witness ==
    /\ Completed
    /\ LET v    == MergeViews[w.doc][w.edition]
           sigs == v.sigs
           n    == Len(v.text)
       IN  /\ \E i \in 1..n : \E l \in (i + 1)..n :
                  /\ v.text_sigs[i] \notin sigs
                  /\ v.text_sigs[l] \in sigs
                  /\ v.text[l].uid = v.text[i].uid
                  /\ InSeq(v.text[i], v.merged)
           /\ Len(v.linked) = 1
           /\ Len(v.merged) = 2

\* C8 as stated: every text record with no linked signature is itself among
\* the merged records.
C8_EveryFreeTextRecordKept ==
    Completed
        => LET v    == MergeViews[w.doc][w.edition]
               sigs == v.sigs
           IN  /\ \A i \in 1..Len(v.linked) : InSeq(v.linked[i], v.merged)
               /\ \A i \in 1..Len(v.text) :
                      v.text_sigs[i] \in sigs => ~InSeq(v.text[i], v.merged)
               /\ \A i \in 1..Len(v.text) :
                      v.text_sigs[i] \notin sigs => InSeq(v.text[i], v.merged)

\* C9: in the delivery list, of two events with the same parsable date the
\* one with a time token comes before the one without.
C9_UntimedAfterTimed ==
    pc = "sending"
        => \A i, j \in 1..Len(plan.to_post) :
               ( /\ EventDate(plan.to_post[i]) # None
                 /\ EventDate(plan.to_post[i]) = EventDate(plan.to_post[j])
                 /\ Timed(plan.to_post[i])
                 /\ ~Timed(plan.to_post[j]) )
                   => i < j

\* C10: the notifications of a run are sent in calendar order of their
\* dates, and none with an unparsable date is sent before one with a
\* parsable date.
C10_SentInDateOrder ==
    \A i, j \in 1..nsent :
        i < j => LET a == EventDate(plan.to_post[i])
                     b == EventDate(plan.to_post[j])
                 IN  /\ (a # None /\ b # None) => ~DateBefore(b, a)
                     /\ ~(a = None /\ b # None)

\* the run has read its documents and computed what to send
Planned == outcome \in {"running", "bootstrap", "committed", "fault_send"}

\* C12: the linked records of an info page have the same uids in every
\* edition of the detail pages that a run has completed on, and a run sends
\* no notification for a linked record whose uid is in the seen-set it
\* loaded.
C12_LinkedUidStable ==
    Planned
        => LET here == MergeViews[w.doc][w.edition].linked
           IN  /\ \A v \in views :
                      v.doc = w.doc
                          => Uids(MergeViews[v.doc][v.edition].linked) = Uids(here)
               /\ \A i \in 1..Len(here) :
                      /\ here[i].uid[1] = "ksinr"
                      /\ here[i].uid \in load_posted(file0) => here[i].uid \notin SentSet

\* a run that sent notifications and committed, on an info page whose
\* detail pages an earlier run saw with other texts, the uid of a linked
\* record being in the seen-set
C12_Witness ==
    /\ outcome = "committed"
    /\ nsent > 0
    /\ LET here == MergeViews[w.doc][w.edition].linked
       IN  /\ \E v \in views :
                  /\ v.doc = w.doc
                  /\ v.edition # w.edition
                  /\ \E i \in 1..Len(here) :
                         /\ MergeViews[v.doc][v.edition].linked[i] # here[i]
                         /\ here[i].uid \in load_posted(file0)

\* C19: a text record that the merge of an earlier completed run dropped
\* for a linked record, that linked record having been notified, is not
\* notified by a later run whose info page has the same text lines.
C19_DroppedTextNeverSent ==
    Planned
        => \A v \in views :
               InfoDocs[v.doc].lines = InfoDocs[w.doc].lines
                   => LET then == MergeViews[v.doc][v.edition]
                      IN  \A i \in 1..Len(then.text) :
                              \A j \in 1..Len(then.linked) :
                                  ( /\ Signature(then.text[i]) = Signature(then.linked[j])
                                    /\ then.linked[j].uid \in sent_before )
                                      => then.text[i].uid \notin SentSet

\* C20: a run that finds the state file of an earlier completed run does not
\* take the first-run branch on uids it observes: it writes none of them to
\* the seen-set without a notification.
C20_BootstrapOnlyOnce ==
    (outcome = "bootstrap" /\ file0.exists) => plan.current_uids = {}

\* the uids the extractors yield on the documents of world x when the
\* seen-set is seen
ObservedUids(x, seen) ==
    Uids(SessionnetEvents[x.doc][x.edition])
        \cup parse_witz_events(SitePages[x.site], x.wfail, seen).current_uids

\* C15: the uids a run observes are those the extractors yield on the same
\* documents with an empty seen-set, with the seen-set as it is now on disk
\* and with a seen-set that holds them all.
C15_UidsIndependentOfState ==
    Planned
        => \A seen \in {{}, load_posted(state_file), plan.current_uids} :
               ObservedUids(w, seen) = plan.current_uids

\* a committed run that loaded a seen-set with some of the event URLs of the
\* site and none of the others, and sent notifications
C15_Witness ==
    /\ outcome = "committed"
    /\ nsent > 0
    /\ LET pages == SitePages[w.site]
       IN  /\ \E k \in 1..Len(pages) : pages[k].uid \in load_posted(file0)
           /\ \E k \in 1..Len(pages) : pages[k].uid \notin load_posted(file0)
    /\ Uids(MergeViews[w.doc][w.edition].merged) # {}

\* what C13 takes the uid of an events-site record to be made of
IdentityTuple(o) == << o.call.url, o.event.title, o.event.datum, o.event.ort >>

\* C13: two records of event pages have the same uid exactly if they have
\* the same URL, title, date and location.
C13_UidOfUrlTitleDateLocation ==
    \A a, b \in 1..Len(page_out) :
        (page_out[a].event.uid = page_out[b].event.uid)
            <=> (IdentityTuple(page_out[a]) = IdentityTuple(page_out[b]))

\* dd.mm.yyyy of an ISO timestamp yyyy-mm-ddThh:mm:ss
IsoDate(ts) == SubSeq(ts, 9, 10) \o << "." >> \o SubSeq(ts, 6, 7) \o << "." >> \o SubSeq(ts, 1, 4)

\* hh:mm of an ISO timestamp
IsoTime(ts) == SubSeq(ts, 12, 16)

\* C14: the record of a page that embeds a structured event object has the
\* start date of the object as its date, and as its time the start time
\* with " Uhr", or start time, " bis ", end time and " Uhr" when the end time
\* differs.
C14_StructuredObjectPreferred ==
    \A a \in 1..Len(page_out) :
        LET ld == page_out[a].call.page.ld
            ev == page_out[a].event
        IN  ld # NoObject
                => /\ ev.datum = IsoDate(ld.startDate)
                   /\ ev.zeit = IF IsoTime(ld.endDate) = IsoTime(ld.startDate)
                                THEN IsoTime(ld.startDate) \o << " " >> \o UHR
                                ELSE IsoTime(ld.startDate) \o << " ", "b", "i", "s", " " >>
                                         \o IsoTime(ld.endDate) \o << " " >> \o UHR

\* C11: on a text block made of the header line, n event groups and a
\* trailer line, the scan returns n records, the k-th with the date, the
\* title, the time and the location of the k-th group.
C11_WellFormedBlockExtracted ==
    (scan_pc = "returned" /\ scan_input.wf)
        => /\ Len(scan_events) = Len(scan_input.groups)
           /\ \A k \in 1..Len(scan_events) :
                  /\ scan_events[k].datum = GroupDate(k)
                  /\ scan_events[k].title = GroupTitle(k)
                  /\ scan_events[k].zeit = GroupTime(k)
                  /\ scan_events[k].ort = GroupLocation(k)

\* the scan has returned two records on a block of two groups: the first
\* with a title line and day-name lines before its date, time and location
\* lines, the second with the title on its date line
C11_Witness ==
    /\ scan_pc = "returned"
    /\ scan_input.wf
    /\ Len(scan_input.groups) = 2
    /\ Len(scan_events) = 2
    /\ LET g == scan_input.groups[1]
       IN  ~g.titled /\ g.day_date /\ g.day_time /\ g.day_location
    /\ scan_input.groups[2].titled

\* the lines before the first trailer line that follows the header line
BeforeTrailer(lines) ==
    LET IsHeader(k)  == /\ lines[k] = HEADER_LINE
                        /\ \A l \in 1..(k - 1) : lines[l] # HEADER_LINE
        IsTrailer(k) == /\ StartsWith(lines[k], TRAILER_PREFIX)
                        /\ \E h \in 1..(k - 1) : IsHeader(h)
    IN  IF \E k \in 1..Len(lines) : IsTrailer(k)
        THEN SubSeq(lines, 1,
                    (CHOOSE k \in 1..Len(lines) :
                         IsTrailer(k) /\ \A l \in 1..(k - 1) : ~IsTrailer(l)) - 1)
        ELSE lines

\* C16: the scan returns what the extractor yields on the lines before the
\* first trailer line that follows the header: no record is opened by, or
\* takes its title, time or location from, that line or a line after it.
C16_NothingFromTrailerOn ==
    scan_pc = "returned"
        => scan_events = parse_text_events_from_info(BeforeTrailer(scan_lines))

\* the lines that are no day-name lines
WithoutDayLines(lines) ==
    LET NoDay(line) == line \notin DAY_TOKENS
    IN  SelectSeq(lines, NoDay)

\* C17: no record the scan returns has a day-name line as its title, time
\* or location, and the scan returns what the extractor yields on the lines
\* without the day-name lines.
C17_DayLinesAreNoise ==
    scan_pc = "returned"
        => /\ \A k \in 1..Len(scan_events) :
                  /\ scan_events[k].title \notin DAY_TOKENS
                  /\ scan_events[k].zeit \notin DAY_TOKENS
                  /\ scan_events[k].ort \notin DAY_TOKENS
           /\ scan_events = parse_text_events_from_info(WithoutDayLines(scan_lines))

\* an iteration of the loop moves the cursor forward or ends the scan
CursorAdvances ==
    scan_pc = "loop"
        => \/ scan_pc' = "returned"
           \/ scan_pc' = "loop" /\ scan_i' > scan_i

\* an iteration on a line that matches no rule moves the cursor by one line
\* and nothing else
UnmatchedSkipped ==
    (scan_pc = "loop" /\ scan_i <= Len(scan_lines) /\ Unmatched(scan_lines, scan_i))
        => (scan_pc' = "loop" /\ scan_i' = scan_i + 1 /\ scan_events' = scan_events)

\* C18: the scan of every text block returns; until then every iteration
\* moves the cursor forward, an unmatched line is passed over and the scan
\* goes on, and on lines without the header line no event is returned.
C18_ScanTerminates ==
    /\ [][CursorAdvances /\ UnmatchedSkipped]_vars
    /\ <>(scan_pc = "returned")
    /\ [](scan_pc = "returned" /\ ~HasHeader(scan_lines) => scan_events = << >>)

\* the scan has passed over an unmatched line behind the header, appended
\* an event after it and returned at the end of the lines
C18_Witness ==
    /\ scan_pc = "returned"
    /\ scan_i > Len(scan_lines)
    /\ Len(scan_events) >= 1
    /\ \E h \in 1..(Len(scan_lines) - 1) :
           /\ scan_lines[h] = HEADER_LINE
           /\ \A l \in 1..(h - 1) : scan_lines[l] # HEADER_LINE
           /\ Unmatched(scan_lines, h + 1)

====
